---- MODULE Spec2Model ----
(***************************************************************************)
(* Daily_Track: the offline-first synchronisation subsystem.               *)
(*   src/sync.js  SyncManager   (sync cycle, triggers, pull, push)         *)
(*   src/db.js    DailyTrackDB  (local store, sync queue)                  *)
(*   src/app.js   DailyTrackApp (UI mutations, network events)             *)
(* One action is one stretch of code between two suspension points (an     *)
(* IndexedDB request or a fetch); the store operation or the transport     *)
(* call takes effect in the action that resumes after it.                  *)
(***************************************************************************)
EXTENDS Integers, Sequences, FiniteSets, TLC

\* ------------------------------------------------------------ bounds
MaxTime == 1          \* the clock runs 0 .. MaxTime
MaxQueue == 2         \* sync-queue entries ever enqueued
MaxBatch == 2         \* records in one remote delta of the pull harness
MaxDelta == 1         \* task records in one remote delta otherwise
MaxFailCount == 4     \* saturation of the failed-dispatch tally

\* ------------------------------------------------- program constants
maxRetries == 3
ThirtyDays == 1       \* db.js:482  the 30 days of optimize, in clock ticks
NaT == -1             \* getTime() of an Invalid Date (NaN): compares false

StoreNames == <<"tasks", "expenses", "journal">>
TaskIds == {"t1"}
IdsOf(s) == IF s = "tasks" THEN TaskIds
            ELSE IF s = "expenses" THEN {"e1"} ELSE {"j1"}
Titles == {"A"}

\* syncHandlers after registerSyncHandlers: no entry for the delete types
HandlerTypes == {"task", "expense", "habit", "journal", "settings"}
HasHandler(type) == type \in HandlerTypes

\* ------------------------------------------------------------- state
VARIABLES
  now,          \* wall clock (Date.now / new Date())
  online,       \* navigator.onLine
  appIsOffline, \* DailyTrackApp.isOffline
  db,           \* IndexedDB object stores tasks, expenses, journal: id -> record
  syncQueue,    \* IndexedDB object store syncQueue: key -> entry
  nextKey,      \* the autoIncrement key generator of syncQueue
  lastSync,     \* localStorage 'lastSync' (0 when never set)
  isSyncing,    \* SyncManager.isSyncing
  offlineQueue, \* SyncManager.offlineQueue
  pc,           \* where the running syncAll is suspended ("idle": none)
  pendingItems, \* syncPendingItems: the array returned by getPendingSyncItems
  idx,          \* syncPendingItems: position in pendingItems
  held,         \* the record or entry the suspended code holds for its next write
  unsynced,     \* syncLocalChanges: the filtered array of the current store
  cur,          \* index in StoreNames of the store being pushed or pulled
  pos,          \* position in unsynced, or in updates[store]
  updates,      \* fetchRemoteChanges: the parsed response
  ui,           \* the UI handler in flight: [op, ...] ("idle": none)
  maint,        \* optimize, clearSyncQueue or importData in flight ("idle": none)
  activeCycles, \* history: syncAll invocations between their start and end
  fails,        \* retry harness: failed dispatches per observed queue key
  cycleLog,     \* history of the current (or last) cycle
  remoteData,   \* pull harness: the delta the remote answers with
  db0,          \* pull harness: the stores before the first pull
  habits,       \* IndexedDB object store habits: id -> habit
  broken,       \* the object stores that cannot be accessed
  credential,   \* the remote accepts the stored auth token
  lastCall,     \* history: the last store or habit call and what it returned
  analytics,    \* IndexedDB object store analytics: date -> record
  inFlight,     \* the recordAnalytics calls in flight
  cache,        \* Cache Storage of the service worker: request -> response
  sw,           \* the fetch event the service worker is handling
  remote        \* the records the remote holds: id -> record

cycleVars == <<isSyncing, pc, pendingItems, idx, held, unsynced, cur, pos,
               updates, activeCycles, cycleLog>>
harnessVars == <<remoteData, db0>>
restVars == <<habits, broken, credential, lastCall>>
otherVars == <<analytics, inFlight, cache, sw, remote>>
vars == <<now, online, appIsOffline, db, syncQueue, nextKey, lastSync,
          isSyncing, offlineQueue, pc, pendingItems, idx, held, unsynced,
          cur, pos, updates, ui, maint, activeCycles, fails, cycleLog, remoteData,
          db0, habits, broken, credential, lastCall, analytics, inFlight, cache,
          sw, remote>>

\* ----------------------------------------------------------- helpers
Put(store, rec) ==
  [x \in (DOMAIN store) \cup {rec.id} |-> IF x = rec.id THEN rec ELSE store[x]]

Remove(store, key) == [x \in (DOMAIN store) \ {key} |-> store[x]]

EmptyStore == [x \in {} |-> 0]

NoUpdates == [tasks |-> <<>>, expenses |-> <<>>, journal |-> <<>>]

NoHeld == [kind |-> "none"]

NewLog == [signal |-> "none", drainFailed |-> FALSE, pushFailed |-> FALSE,
           pullRan |-> FALSE, pullError |-> "none", snapshot |-> {},
           dispatched |-> {}, delivered |-> {}, posts |-> EmptyStore,
           emitted |-> {}, threw |-> FALSE]

\* one more successful POST of record id in this cycle
AddPost(p, id) ==
  [x \in (DOMAIN p) \cup {id} |->
     IF x = id THEN (IF id \in DOMAIN p THEN p[id] + 1 ELSE 1) ELSE p[x]]

\* new Date(a) > new Date(b): false as soon as one side is an Invalid Date
DateGT(a, b) == a # NaT /\ b # NaT /\ a > b

\* keys of a store in ascending order (IndexedDB getAll order)
RECURSIVE SortedKeys(_)
SortedKeys(S) ==
  IF S = {} THEN <<>>
  ELSE LET m == CHOOSE x \in S : \A y \in S : x <= y
       IN <<m>> \o SortedKeys(S \ {m})

\* record ids in key order
IdOrder == <<"e1", "h1", "h2", "j1", "t1", "t2">>
SortedIds(S) == SelectSeq(IdOrder, LAMBDA x : x \in S)

Init ==
  /\ now = 0
  /\ online \in BOOLEAN
  /\ appIsOffline = ~online
  /\ db = [tasks |-> EmptyStore, expenses |-> EmptyStore, journal |-> EmptyStore]
  /\ syncQueue = EmptyStore
  /\ nextKey = 1
  /\ lastSync = 0
  /\ isSyncing = FALSE
  /\ offlineQueue = <<>>
  /\ pc = "idle"
  /\ pendingItems = <<>>
  /\ idx = 0
  /\ held = NoHeld
  /\ unsynced = <<>>
  /\ cur = 0
  /\ pos = 0
  /\ updates = NoUpdates
  /\ ui = [op |-> "idle"]
  /\ maint = [op |-> "idle"]
  /\ habits = EmptyStore
  /\ broken = {}
  /\ credential = TRUE
  /\ lastCall = [op |-> "none"]
  /\ analytics = EmptyStore
  /\ inFlight = {}
  /\ cache = EmptyStore
  /\ sw = [op |-> "idle"]
  /\ remote = EmptyStore
  /\ activeCycles = 0
  /\ fails = EmptyStore
  /\ cycleLog = NewLog
  /\ remoteData = NoUpdates
  /\ db0 = db

\* ------------------------------------------------ syncAll and its triggers
\* (variant: the guard of sync.js:64 is missing)
InProgressNoGuard(flag) == FALSE

\* sync.js:64  if (this.isSyncing) return
InProgress(flag) == flag

\* `calls` consecutive synchronous calls of syncAll(): the first one that finds
\* the flag clear sets it and suspends in getPendingSyncItems.
SyncAll(calls) ==
  LET first == IF InProgress(isSyncing) THEN 0 ELSE 1
      later == IF InProgress(TRUE) THEN 0 ELSE calls - 1
      started == first + later
  IN IF started = 0
     THEN UNCHANGED cycleVars
     ELSE /\ isSyncing' = TRUE
          /\ pc' = "drainRead"
          /\ activeCycles' = activeCycles + started
          /\ cycleLog' = NewLog
          /\ pendingItems' = <<>> /\ idx' = 0 /\ held' = NoHeld
          /\ unsynced' = <<>> /\ cur' = 0 /\ pos' = 0 /\ updates' = NoUpdates

\* (variant: emit calls the subscribers with no try around the call)
EmitUncaught(subscriberThrows) == subscriberThrows

\* sync.js:285-295 emit: does the exception of a subscriber leave emit? Each
\* callback is called inside a try whose catch logs
EmitThrows(subscriberThrows) == FALSE

\* the signals syncAll has emitted when it reaches finally: emit(signal) and,
\* if emit('syncComplete') throws inside the try block, the emit('syncError')
\* of the catch block
Emitted(signal, subscriberThrows) ==
  IF signal = "syncComplete" /\ EmitThrows(subscriberThrows)
  THEN {"syncComplete", "syncError"}
  ELSE {signal}

\* syncAll reaches this.emit(signal) (sync.js:76, 79), whose subscribers
\* return or throw; finally is next
EndCycle(signal, log) ==
  /\ pc' = "done"
  /\ \E subscriberThrows \in BOOLEAN :
       cycleLog' = [log EXCEPT !.signal = signal,
                               !.emitted = Emitted(signal, subscriberThrows),
                               !.threw = subscriberThrows]
  /\ UNCHANGED <<isSyncing, activeCycles>>
  /\ pendingItems' = <<>>
  /\ idx' = 0
  /\ held' = NoHeld
  /\ unsynced' = <<>>
  /\ cur' = 0
  /\ pos' = 0
  /\ updates' = NoUpdates

\* (variant: the flag is cleared at the end of the try block, not in finally)
ReleasedInTry == cycleLog.signal = "syncError"

\* the value of isSyncing when syncAll returns (sync.js:81)
Released == FALSE

\* sync.js:80-82  finally { this.isSyncing = false }
Finally ==
  /\ pc = "done"
  /\ isSyncing' = Released
  /\ pc' = "idle"
  /\ activeCycles' = activeCycles - 1
  /\ cycleLog' = NewLog
  /\ UNCHANGED <<pendingItems, idx, held, unsynced, cur, pos, updates>>
  /\ UNCHANGED <<now, online, appIsOffline, db, syncQueue, nextKey, lastSync,
                 offlineQueue, ui, maint, fails>>
  /\ UNCHANGED harnessVars
  /\ UNCHANGED otherVars
  /\ UNCHANGED restVars

Tick ==
  /\ now < MaxTime
  /\ now' = now + 1
  /\ UNCHANGED <<online, appIsOffline, db, syncQueue, nextKey, lastSync,
                 offlineQueue, ui, maint, fails>>
  /\ UNCHANGED cycleVars
  /\ UNCHANGED harnessVars
  /\ UNCHANGED otherVars
  /\ UNCHANGED restVars

\* setInterval callback
PeriodicSync ==
  /\ online /\ ~isSyncing
  /\ SyncAll(1)
  /\ UNCHANGED <<now, online, appIsOffline, db, syncQueue, nextKey, lastSync,
                 offlineQueue, ui, maint, fails>>
  /\ UNCHANGED harnessVars
  /\ UNCHANGED otherVars
  /\ UNCHANGED restVars

ForceSync ==
  /\ SyncAll(1)
  /\ UNCHANGED <<now, online, appIsOffline, db, syncQueue, nextKey, lastSync,
                 offlineQueue, ui, maint, fails>>
  /\ UNCHANGED harnessVars
  /\ UNCHANGED otherVars
  /\ UNCHANGED restVars

HandleAppVisible ==
  /\ ~appIsOffline
  /\ SyncAll(1)
  /\ UNCHANGED <<now, online, appIsOffline, db, syncQueue, nextKey, lastSync,
                 offlineQueue, ui, maint, fails>>
  /\ UNCHANGED harnessVars
  /\ UNCHANGED otherVars
  /\ UNCHANGED restVars

\* window 'online': the SyncManager listener and DailyTrackApp.handleOnline
\* both call onNetworkRestored
OnlineEvent ==
  /\ ~online
  /\ online' = TRUE
  /\ appIsOffline' = FALSE
  /\ SyncAll(2)
  /\ UNCHANGED <<now, db, syncQueue, nextKey, lastSync, offlineQueue, ui, maint, fails>>
  /\ UNCHANGED harnessVars
  /\ UNCHANGED otherVars
  /\ UNCHANGED restVars

\* window 'offline'
OfflineEvent ==
  /\ online
  /\ online' = FALSE
  /\ appIsOffline' = TRUE
  /\ UNCHANGED <<now, db, syncQueue, nextKey, lastSync, offlineQueue, ui, maint, fails>>
  /\ UNCHANGED cycleVars
  /\ UNCHANGED harnessVars
  /\ UNCHANGED otherVars
  /\ UNCHANGED restVars

\* ------------------------------------------------------- UI mutations
NewTask(id, title) ==
  [id |-> id, title |-> title, completed |-> FALSE, updatedAt |-> now,
   synced |-> FALSE]

\* saveTask up to the completion of db.update('tasks', task)
SaveTask(id, title) ==
  /\ ui.op = "idle"
  /\ nextKey <= MaxQueue
  /\ db' = [db EXCEPT !.tasks = Put(@, NewTask(id, title))]
  /\ ui' = [op |-> "queue", type |-> "task", data |-> NewTask(id, title)]
  /\ UNCHANGED <<now, online, appIsOffline, syncQueue, nextKey, lastSync,
                 offlineQueue, maint, fails>>
  /\ UNCHANGED cycleVars
  /\ UNCHANGED harnessVars
  /\ UNCHANGED otherVars
  /\ UNCHANGED restVars

\* toggleTaskCompletion: db.get resolved, the copy modified, db.update issued
ToggleGet(id, completed) ==
  /\ ui.op = "idle"
  /\ nextKey <= MaxQueue
  /\ id \in DOMAIN db.tasks
  /\ ui' = [op |-> "put",
            rec |-> [db.tasks[id] EXCEPT !.completed = completed,
                                         !.updatedAt = now]]
  /\ UNCHANGED <<now, online, appIsOffline, db, syncQueue, nextKey, lastSync,
                 offlineQueue, maint, fails>>
  /\ UNCHANGED cycleVars
  /\ UNCHANGED harnessVars
  /\ UNCHANGED otherVars
  /\ UNCHANGED restVars

\* toggleTaskCompletion: db.update resolved
TogglePut ==
  /\ ui.op = "put"
  /\ db' = [db EXCEPT !.tasks = Put(@, ui.rec)]
  /\ ui' = [op |-> "queue", type |-> "task", data |-> ui.rec]
  /\ UNCHANGED <<now, online, appIsOffline, syncQueue, nextKey, lastSync,
                 offlineQueue, maint, fails>>
  /\ UNCHANGED cycleVars
  /\ UNCHANGED harnessVars
  /\ UNCHANGED otherVars
  /\ UNCHANGED restVars

\* deleteTask up to the completion of db.delete('tasks', taskId)
DeleteTask(id) ==
  /\ ui.op = "idle"
  /\ nextKey <= MaxQueue
  /\ id \in DOMAIN db.tasks
  /\ db' = [db EXCEPT !.tasks = Remove(@, id)]
  /\ ui' = [op |-> "queue", type |-> "task-delete", data |-> [id |-> id]]
  /\ UNCHANGED <<now, online, appIsOffline, syncQueue, nextKey, lastSync,
                 offlineQueue, maint, fails>>
  /\ UNCHANGED cycleVars
  /\ UNCHANGED harnessVars
  /\ UNCHANGED otherVars
  /\ UNCHANGED restVars

\* (variant: the entry is stored under a fixed key, no key generator)
NewEntryReusingKey(key, type, data) ==
  [id |-> 1, type |-> type, data |-> data, status |-> "pending",
   createdAt |-> now, attempts |-> 0]

\* db.addToSyncQueue: the entry the store keeps under the generated key
NewEntry(key, type, data) ==
  [id |-> key, type |-> type, data |-> data, status |-> "pending",
   createdAt |-> now, attempts |-> 0]

\* queueForSync once db.addToSyncQueue resolved
QueueForSync ==
  /\ ui.op = "queue"
  /\ syncQueue' = Put(syncQueue, NewEntry(nextKey, ui.type, ui.data))
  /\ nextKey' = nextKey + 1
  /\ offlineQueue' = Append(offlineQueue,
        [type |-> ui.type, data |-> ui.data, status |-> "pending",
         createdAt |-> now, attempts |-> 0])
  /\ IF online THEN SyncAll(1) ELSE UNCHANGED cycleVars
  /\ ui' = [op |-> "idle"]
  /\ UNCHANGED <<now, online, appIsOffline, db, lastSync, maint, fails>>
  /\ UNCHANGED harnessVars
  /\ UNCHANGED otherVars
  /\ UNCHANGED restVars

\* --------------------------------------- Draining Queue: syncPendingItems
\* db.getPendingSyncItems(): getAll('syncQueue', 'by-status', 'pending')
GetPendingSyncItems(q) ==
  LET keys == SortedKeys({k \in DOMAIN q : q[k].status = "pending"})
  IN [i \in 1..Len(keys) |-> q[keys[i]]]

\* the for loop moves on from pendingItems[idx]; after the last item
\* syncLocalChanges starts with db.getAll('tasks')
DrainAdvance(items) ==
  IF idx + 1 > Len(items)
  THEN pc' = "pushRead" /\ pendingItems' = <<>> /\ idx' = 0 /\ cur' = 1
  ELSE pc' = "drain" /\ pendingItems' = items /\ idx' = idx + 1 /\ cur' = cur

Tally(key) ==
  IF key \in DOMAIN fails
  THEN [fails EXCEPT ![key] = IF @ < MaxFailCount THEN @ + 1 ELSE @]
  ELSE fails

\* sync.js:97  the attempt is counted on the in-memory copy of the entry
Attempted(item) == [item EXCEPT !.attempts = @ + 1]

\* sync.js:99  the copy is written back only when the ceiling is reached
AtCeiling(item) == item.attempts >= maxRetries

\* (variant: markSyncItemComplete is called after a failed dispatch too)
DrainCatchThenMark ==
  /\ fails' = Tally(pendingItems[idx].id)
  /\ cycleLog' = [cycleLog EXCEPT !.drainFailed = TRUE,
                    !.dispatched = @ \cup {pendingItems[idx].id}]
  /\ pc' = "markGet"
  /\ UNCHANGED <<pendingItems, idx, held, cur>>

\* the catch block of the loop body (sync.js:95-103)
DrainCatch ==
  LET item == Attempted(pendingItems[idx])
      items == [pendingItems EXCEPT ![idx] = item]
  IN /\ fails' = Tally(item.id)
     /\ cycleLog' = [cycleLog EXCEPT !.drainFailed = TRUE,
                       !.dispatched = @ \cup {item.id}]
     /\ IF AtCeiling(item)
        THEN /\ pc' = "persistFailed"
             /\ held' = [kind |-> "entry", rec |-> [item EXCEPT !.status = "failed"]]
             /\ pendingItems' = [items EXCEPT ![idx].status = "failed"]
             /\ UNCHANGED <<idx, cur>>
        ELSE /\ DrainAdvance(items)
             /\ held' = NoHeld

\* syncAll resumes with the result of db.getPendingSyncItems()
DrainRead(fault) ==
  /\ pc = "drainRead"
  /\ IF fault
     THEN EndCycle("syncError", cycleLog)
     ELSE LET items == GetPendingSyncItems(syncQueue)
          IN /\ IF Len(items) = 0
                THEN pc' = "pushRead" /\ pendingItems' = <<>> /\ idx' = 0 /\ cur' = 1
                ELSE pc' = "drain" /\ pendingItems' = items /\ idx' = 1 /\ cur' = cur
             /\ cycleLog' = [cycleLog EXCEPT
                               !.snapshot = {items[i].id : i \in 1..Len(items)}]
             /\ UNCHANGED <<isSyncing, held, unsynced, pos, updates, activeCycles>>
  /\ UNCHANGED <<now, online, appIsOffline, db, syncQueue, nextKey, lastSync,
                 offlineQueue, ui, maint, fails>>
  /\ UNCHANGED harnessVars
  /\ UNCHANGED otherVars
  /\ UNCHANGED restVars

\* sync.js:90-91  no handler registered for item.type: the body does nothing
DrainNoHandler ==
  /\ pc = "drain"
  /\ ~HasHandler(pendingItems[idx].type)
  /\ DrainAdvance(pendingItems)
  /\ UNCHANGED <<isSyncing, held, unsynced, pos, updates, activeCycles, cycleLog>>
  /\ UNCHANGED <<now, online, appIsOffline, db, syncQueue, nextKey, lastSync,
                 offlineQueue, ui, maint, fails>>
  /\ UNCHANGED harnessVars
  /\ UNCHANGED otherVars
  /\ UNCHANGED restVars

\* apiRequest: throws when offline; otherwise the transport answers ok or, as
\* it does to a token it does not accept, not ok
TransportCan(ok) == ok => (online /\ credential)

\* await handler(item.data): the request and its answer
DrainDispatch(ok) ==
  /\ pc = "drain"
  /\ HasHandler(pendingItems[idx].type)
  /\ TransportCan(ok)
  /\ IF ok
     THEN /\ pc' = "markGet"
          /\ cycleLog' = [cycleLog EXCEPT
                            !.dispatched = @ \cup {pendingItems[idx].id},
                            !.delivered = @ \cup {pendingItems[idx].id},
                            !.posts = AddPost(@, pendingItems[idx].data.id)]
          /\ UNCHANGED <<pendingItems, idx, held, cur, fails>>
     ELSE DrainCatch
  /\ UNCHANGED <<isSyncing, unsynced, pos, updates, activeCycles>>
  /\ UNCHANGED <<now, online, appIsOffline, db, syncQueue, nextKey, lastSync,
                 offlineQueue, ui, maint>>
  /\ UNCHANGED harnessVars
  /\ UNCHANGED otherVars
  /\ UNCHANGED restVars

\* db.markSyncItemComplete: the entry as it is written back
Completed(item) ==
  [x \in (DOMAIN item) \cup {"completedAt"} |->
     IF x = "completedAt" THEN now
     ELSE IF x = "status" THEN "completed" ELSE item[x]]

\* markSyncItemComplete resumes with the result of get('syncQueue', id)
MarkGet(fault) ==
  /\ pc = "markGet"
  /\ IF fault
     THEN DrainCatch
     ELSE /\ IF pendingItems[idx].id \in DOMAIN syncQueue
             THEN /\ pc' = "markPut"
                  /\ held' = [kind |-> "entry",
                              rec |-> Completed(syncQueue[pendingItems[idx].id])]
                  /\ UNCHANGED <<pendingItems, idx, cur>>
             ELSE /\ DrainAdvance(pendingItems)
                  /\ held' = NoHeld
          /\ UNCHANGED <<fails, cycleLog>>
  /\ UNCHANGED <<isSyncing, unsynced, pos, updates, activeCycles>>
  /\ UNCHANGED <<now, online, appIsOffline, db, syncQueue, nextKey, lastSync,
                 offlineQueue, ui, maint>>
  /\ UNCHANGED harnessVars
  /\ UNCHANGED otherVars
  /\ UNCHANGED restVars

\* db.update('syncQueue', item) resolved or rejected: in markSyncItemComplete
\* (db.js:357) a rejection reaches the catch of the loop body; in that catch
\* (sync.js:101) it leaves syncPendingItems and reaches the catch of syncAll
QueueWrite(fault) ==
  /\ pc \in {"markPut", "persistFailed"}
  /\ IF fault
     THEN /\ IF pc = "markPut"
             THEN DrainCatch /\ UNCHANGED <<isSyncing, unsynced, pos, updates, activeCycles>>
             ELSE EndCycle("syncError", cycleLog) /\ UNCHANGED fails
          /\ UNCHANGED syncQueue
     ELSE /\ syncQueue' = Put(syncQueue, held.rec)
          /\ DrainAdvance(pendingItems)
          /\ held' = NoHeld
          /\ UNCHANGED <<fails, cycleLog>>
          /\ UNCHANGED <<isSyncing, unsynced, pos, updates, activeCycles>>
  /\ UNCHANGED <<now, online, appIsOffline, db, nextKey, lastSync,
                 offlineQueue, ui, maint>>
  /\ UNCHANGED harnessVars
  /\ UNCHANGED otherVars
  /\ UNCHANGED restVars

\* ---------------------------------------- Pushing Local: syncLocalChanges
\* getAll(store).filter(r => !r.synced)
Unsynced(store) ==
  LET ids == SortedIds({i \in DOMAIN store : ~store[i].synced})
  IN [i \in 1..Len(ids) |-> store[ids[i]]]

\* after the loop over store number c: the next getAll, or fetchRemoteChanges
PushNextStore(c) ==
  IF c < Len(StoreNames)
  THEN pc' = "pushRead" /\ cur' = c + 1
  ELSE pc' = "pull" /\ cur' = 0

\* syncLocalChanges resumes with the result of db.getAll(store)
PushRead(fault) ==
  /\ pc = "pushRead"
  /\ IF fault
     THEN EndCycle("syncError", cycleLog)
     ELSE LET list == Unsynced(db[StoreNames[cur]])
          IN /\ IF Len(list) = 0
                THEN PushNextStore(cur) /\ unsynced' = <<>> /\ pos' = 0
                ELSE pc' = "push" /\ cur' = cur /\ unsynced' = list /\ pos' = 1
             /\ UNCHANGED <<isSyncing, pendingItems, idx, held, updates,
                            activeCycles, cycleLog>>
  /\ UNCHANGED <<now, online, appIsOffline, db, syncQueue, nextKey, lastSync,
                 offlineQueue, ui, maint, fails>>
  /\ UNCHANGED harnessVars
  /\ UNCHANGED otherVars
  /\ UNCHANGED restVars

\* await this.syncTask(task) (syncExpense, syncJournal): no try/catch around
\* it, so a rejection leaves syncLocalChanges and reaches the catch of syncAll
PushSend(ok) ==
  /\ pc = "push"
  /\ TransportCan(ok)
  /\ IF ok
     THEN /\ pc' = "pushWrite"
          /\ held' = [kind |-> "record", rec |-> [unsynced[pos] EXCEPT !.synced = TRUE]]
          /\ cycleLog' = [cycleLog EXCEPT !.posts = AddPost(@, unsynced[pos].id)]
          /\ UNCHANGED <<isSyncing, pendingItems, idx, unsynced, cur, pos,
                         updates, activeCycles>>
     ELSE EndCycle("syncError", [cycleLog EXCEPT !.pushFailed = TRUE])
  /\ UNCHANGED <<now, online, appIsOffline, db, syncQueue, nextKey, lastSync,
                 offlineQueue, ui, maint, fails>>
  /\ UNCHANGED harnessVars
  /\ UNCHANGED otherVars
  /\ UNCHANGED restVars

\* syncLocalChanges resumes after db.update(store, task): the copy read by
\* getAll, with synced = true, replaces whatever the store holds now
PushWrite(fault) ==
  /\ pc = "pushWrite"
  /\ IF fault
     THEN EndCycle("syncError", cycleLog) /\ UNCHANGED db
     ELSE /\ db' = [db EXCEPT ![StoreNames[cur]] = Put(@, held.rec)]
          /\ held' = NoHeld
          /\ IF pos + 1 > Len(unsynced)
             THEN PushNextStore(cur) /\ unsynced' = <<>> /\ pos' = 0
             ELSE pc' = "push" /\ cur' = cur /\ unsynced' = unsynced /\ pos' = pos + 1
          /\ UNCHANGED <<isSyncing, pendingItems, idx, updates, activeCycles, cycleLog>>
  /\ UNCHANGED <<now, online, appIsOffline, syncQueue, nextKey, lastSync,
                 offlineQueue, ui, maint, fails>>
  /\ UNCHANGED harnessVars
  /\ UNCHANGED otherVars
  /\ UNCHANGED restVars

\* --------------------------------------- Pulling Remote: fetchRemoteChanges
\* (variant: >= in place of >)
RemoteWinsOnTie(update, existing) ==
  update.updatedAt # NaT /\ existing.updatedAt # NaT
  /\ update.updatedAt >= existing.updatedAt

\* sync.js:170  new Date(update.updatedAt) > new Date(existing.updatedAt)
RemoteWins(update, existing) == DateGT(update.updatedAt, existing.updatedAt)

\* (variant: db.add without looking at db.get's result)
ApplyAlwaysAdd(store, update) == "add"

\* the body of the loop of applyRemoteUpdates, as decided from db.get
ApplyDecision(store, update) ==
  IF update.id \in DOMAIN store
  THEN IF RemoteWins(update, store[update.id]) THEN "update" ELSE "skip"
  ELSE "add"

\* the first entity type after number c whose array is non-empty (0: none);
\* sync.js:146-156 skips the empty ones
NextBatch(upd, c) ==
  LET later == {i \in (c + 1)..Len(StoreNames) : Len(upd[StoreNames[i]]) > 0}
  IN IF later = {} THEN 0 ELSE CHOOSE i \in later : \A k \in later : i <= k

\* (variant: the checkpoint is written whether or not the pull threw)
PullFailCheckpointed(why) ==
  /\ EndCycle("syncComplete", [cycleLog EXCEPT !.pullRan = TRUE, !.pullError = why])
  /\ lastSync' = now

\* the catch of fetchRemoteChanges logs and returns: syncAll goes on to emit
\* 'syncComplete'; localStorage 'lastSync' is not written
PullFail(why) ==
  /\ EndCycle("syncComplete", [cycleLog EXCEPT !.pullRan = TRUE, !.pullError = why])
  /\ UNCHANGED lastSync

\* (variant: the checkpoint is written one tick behind the clock)
CheckpointBehind ==
  /\ lastSync' = now - 1
  /\ EndCycle("syncComplete", [cycleLog EXCEPT !.pullRan = TRUE])

\* sync.js:158 localStorage.setItem('lastSync', Date.now()), then the end of syncAll
Checkpoint ==
  /\ lastSync' = now
  /\ EndCycle("syncComplete", [cycleLog EXCEPT !.pullRan = TRUE])

\* the loop of applyRemoteUpdates moves on from updates[store][pos]
ApplyAdvance ==
  IF pos + 1 <= Len(updates[StoreNames[cur]])
  THEN /\ pc' = "applyGet" /\ pos' = pos + 1 /\ held' = NoHeld
       /\ UNCHANGED <<isSyncing, pendingItems, idx, unsynced, cur, updates,
                      activeCycles, cycleLog, lastSync>>
  ELSE IF NextBatch(updates, cur) # 0
  THEN /\ pc' = "applyGet" /\ cur' = NextBatch(updates, cur) /\ pos' = 1
       /\ held' = NoHeld
       /\ UNCHANGED <<isSyncing, pendingItems, idx, unsynced, updates,
                      activeCycles, cycleLog, lastSync>>
  ELSE Checkpoint

\* fetchRemoteChanges resumes with the answer to GET /api/sync?since=lastSync
FetchRequest(ok, resp) ==
  /\ pc = "pull"
  /\ TransportCan(ok)
  /\ IF ~ok
     THEN PullFail("transport")
     ELSE IF NextBatch(resp, 0) = 0
     THEN Checkpoint
     ELSE /\ pc' = "applyGet" /\ updates' = resp
          /\ cur' = NextBatch(resp, 0) /\ pos' = 1
          /\ cycleLog' = [cycleLog EXCEPT !.pullRan = TRUE]
          /\ UNCHANGED <<isSyncing, pendingItems, idx, held, unsynced,
                         activeCycles, lastSync>>
  /\ UNCHANGED <<now, online, appIsOffline, db, syncQueue, nextKey,
                 offlineQueue, ui, maint, fails>>
  /\ UNCHANGED harnessVars
  /\ UNCHANGED otherVars
  /\ UNCHANGED restVars

\* applyRemoteUpdates resumes with existing = db.get(storeName, update.id)
ApplyGet(fault) ==
  /\ pc = "applyGet"
  /\ IF fault
     THEN PullFail("store")
     ELSE LET update == updates[StoreNames[cur]][pos]
              what == ApplyDecision(db[StoreNames[cur]], update)
          IN IF what = "skip"
             THEN ApplyAdvance
             ELSE /\ pc' = "applyPut"
                  /\ held' = [kind |-> what, rec |-> update]
                  /\ UNCHANGED <<isSyncing, pendingItems, idx, unsynced, cur, pos,
                                 updates, activeCycles, cycleLog, lastSync>>
  /\ UNCHANGED <<now, online, appIsOffline, db, syncQueue, nextKey,
                 offlineQueue, ui, maint, fails>>
  /\ UNCHANGED harnessVars
  /\ UNCHANGED otherVars
  /\ UNCHANGED restVars

\* variant: an add that never rejects, that is a put
AddNeverRejected(store, rec) == FALSE

\* db.add rejects (ConstraintError) when the key exists by now
AddRejected(store, rec) == rec.id \in DOMAIN store

\* applyRemoteUpdates resumes after db.update or db.add of the update
ApplyPut(fault) ==
  /\ pc = "applyPut"
  /\ IF fault \/ (held.kind = "add" /\ AddRejected(db[StoreNames[cur]], held.rec))
     THEN PullFail(IF fault THEN "store" ELSE "constraint") /\ UNCHANGED db
     ELSE /\ db' = [db EXCEPT ![StoreNames[cur]] = Put(@, held.rec)]
          /\ ApplyAdvance
  /\ UNCHANGED <<now, online, appIsOffline, syncQueue, nextKey,
                 offlineQueue, ui, maint, fails>>
  /\ UNCHANGED harnessVars
  /\ UNCHANGED otherVars
  /\ UNCHANGED restVars

\* applyRemoteUpdates(storeName, batch) run with nothing else in between
RECURSIVE ApplyRemoteUpdates(_, _)
ApplyRemoteUpdates(store, batch) ==
  IF batch = <<>> THEN store
  ELSE ApplyRemoteUpdates(
         IF ApplyDecision(store, Head(batch)) = "skip" THEN store
         ELSE Put(store, Head(batch)),
         Tail(batch))

\* the stores after a pull of delta that threw nowhere (sync.js:146-156)
PullResult(stores, delta) ==
  [tasks |-> ApplyRemoteUpdates(stores.tasks, delta.tasks),
   expenses |-> ApplyRemoteUpdates(stores.expenses, delta.expenses),
   journal |-> ApplyRemoteUpdates(stores.journal, delta.journal)]

\* ------------------------------------------------ the remote's answers
RemoteTimes == {NaT} \cup (1..MaxTime)

RemoteRecords(s) ==
  [id : IdsOf(s), title : {"R"}, completed : {FALSE},
   updatedAt : RemoteTimes, synced : BOOLEAN]

SeqsUpTo(S, n) == UNION {[1..k -> S] : k \in 0..n}

\* applyRemoteUpdates never reads the synced flag of an incoming record: the
\* deltas carry it unset
Incoming(s) == {x \in RemoteRecords(s) : ~x.synced}

\* how many records of each entity type a delta of at most n records holds
BatchSizes(n) ==
  {k \in (0..n) \X (0..n) \X (0..n) : k[1] + k[2] + k[3] <= n}

\* deltas of at most MaxBatch records, over all entity types
Deltas ==
  UNION {[tasks : [1..k[1] -> Incoming("tasks")],
          expenses : [1..k[2] -> Incoming("expenses")],
          journal : [1..k[3] -> Incoming("journal")]] : k \in BatchSizes(MaxBatch)}

\* deltas of at most MaxDelta task records
Responses ==
  [tasks : SeqsUpTo(Incoming("tasks"), MaxDelta),
   expenses : {<<>>}, journal : {<<>>}]

\* ------------------------------------------------------ specification
Faults == BOOLEAN

Triggers ==
  \/ PeriodicSync
  \/ ForceSync
  \/ HandleAppVisible
  \/ OnlineEvent
  \/ OfflineEvent

UiStep ==
  \/ \E id \in TaskIds, title \in Titles : SaveTask(id, title)
  \/ \E id \in TaskIds, completed \in BOOLEAN : ToggleGet(id, completed)
  \/ TogglePut
  \/ \E id \in TaskIds : DeleteTask(id)
  \/ QueueForSync

DrainStep ==
  \/ \E fault \in Faults : DrainRead(fault)
  \/ DrainNoHandler
  \/ \E ok \in BOOLEAN : DrainDispatch(ok)
  \/ \E fault \in Faults : MarkGet(fault)
  \/ \E fault \in Faults : QueueWrite(fault)

PushStep ==
  \/ \E fault \in Faults : PushRead(fault)
  \/ \E ok \in BOOLEAN : PushSend(ok)
  \/ \E fault \in Faults : PushWrite(fault)

ApplyStep ==
  \/ \E fault \in Faults : ApplyGet(fault)
  \/ \E fault \in Faults : ApplyPut(fault)

\* the remote has nothing new
PullNothing == \E ok \in BOOLEAN : FetchRequest(ok, NoUpdates)

\* the remote answers a delta
PullDelta == \E ok \in BOOLEAN, resp \in Responses : FetchRequest(ok, resp)

Next ==
  \/ Tick
  \/ Triggers
  \/ UiStep
  \/ DrainStep
  \/ PushStep
  \/ PullNothing
  \/ Finally

\* the application used on one device: UI mutations, every trigger of syncAll,
\* the sync cycle; no other device changes the remote
Spec == Init /\ [][Next]_vars

\* ---------------------------------------------- the sync engine alone
\* what a sequence of UI mutations leaves while offline and with no cycle
\* running: saveTask, toggleTaskCompletion(id, true) and deleteTask, each
\* followed by its queueForSync
OfflineOps == {"save", "toggle", "delete"}

RECURSIVE AfterOffline(_, _)
AfterOffline(st, ops) ==
  IF ops = <<>> THEN st
  ELSE LET key == st.nextKey
           has == "t1" \in DOMAIN st.tasks
           rec == IF Head(ops) = "save" \/ ~has THEN NewTask("t1", "A")
                  ELSE [st.tasks["t1"] EXCEPT !.completed = TRUE, !.updatedAt = now]
       IN IF Head(ops) = "delete"
          THEN AfterOffline(
                 [tasks |-> Remove(st.tasks, "t1"),
                  queue |-> Put(st.queue, NewEntry(key, "task-delete", [id |-> "t1"])),
                  nextKey |-> key + 1, ok |-> st.ok /\ has], Tail(ops))
          ELSE AfterOffline(
                 [tasks |-> Put(st.tasks, rec),
                  queue |-> Put(st.queue, NewEntry(key, "task", rec)),
                  nextKey |-> key + 1,
                  ok |-> st.ok /\ (Head(ops) = "save" \/ has)], Tail(ops))

OfflineStates ==
  LET start == [tasks |-> EmptyStore, queue |-> EmptyStore, nextKey |-> 1, ok |-> TRUE]
      all == {AfterOffline(start, ops) : ops \in SeqsUpTo(OfflineOps, MaxQueue) \ {<<>>}}
  IN {st \in all : st.ok}

InitSync ==
  /\ now = 0
  /\ online = FALSE
  /\ appIsOffline = TRUE
  /\ \E st \in OfflineStates :
       /\ db = [tasks |-> st.tasks, expenses |-> EmptyStore, journal |-> EmptyStore]
       /\ syncQueue = st.queue
       /\ nextKey = st.nextKey
       /\ fails = [k \in DOMAIN st.queue |-> 0]
  /\ lastSync = 0
  /\ isSyncing = FALSE
  /\ offlineQueue = <<>>
  /\ pc = "idle"
  /\ pendingItems = <<>>
  /\ idx = 0
  /\ held = NoHeld
  /\ unsynced = <<>>
  /\ cur = 0
  /\ pos = 0
  /\ updates = NoUpdates
  /\ ui = [op |-> "idle"]
  /\ maint = [op |-> "idle"]
  /\ habits = EmptyStore
  /\ broken = {}
  /\ credential = TRUE
  /\ lastCall = [op |-> "none"]
  /\ analytics = EmptyStore
  /\ inFlight = {}
  /\ cache = EmptyStore
  /\ sw = [op |-> "idle"]
  /\ remote = EmptyStore
  /\ activeCycles = 0
  /\ cycleLog = NewLog
  /\ remoteData = NoUpdates
  /\ db0 = db

SyncStep ==
  \/ DrainStep
  \/ PushStep
  \/ PullDelta
  \/ ApplyStep
  \/ Finally

NextSync ==
  \/ Tick
  \/ Triggers
  \/ SyncStep

\* the sync engine after offline work: every trigger but queueForSync, the
\* sync cycle, a remote that answers deltas; failed dispatches are tallied
SpecSync == InitSync /\ [][NextSync]_vars

\* every suspended store or transport call of a cycle returns or throws
FairSync == SpecSync /\ WF_vars(SyncStep)

\* the same, with an auth token in localStorage that the remote accepts or
\* one that is missing or rejected
InitAuth ==
  /\ now = 0
  /\ online = FALSE
  /\ appIsOffline = TRUE
  /\ \E st \in OfflineStates :
       /\ db = [tasks |-> st.tasks, expenses |-> EmptyStore, journal |-> EmptyStore]
       /\ syncQueue = st.queue
       /\ nextKey = st.nextKey
       /\ fails = [k \in DOMAIN st.queue |-> 0]
  /\ lastSync = 0
  /\ isSyncing = FALSE
  /\ offlineQueue = <<>>
  /\ pc = "idle"
  /\ pendingItems = <<>>
  /\ idx = 0
  /\ held = NoHeld
  /\ unsynced = <<>>
  /\ cur = 0
  /\ pos = 0
  /\ updates = NoUpdates
  /\ ui = [op |-> "idle"]
  /\ maint = [op |-> "idle"]
  /\ habits = EmptyStore
  /\ broken = {}
  /\ credential \in BOOLEAN
  /\ lastCall = [op |-> "none"]
  /\ analytics = EmptyStore
  /\ inFlight = {}
  /\ cache = EmptyStore
  /\ sw = [op |-> "idle"]
  /\ remote = EmptyStore
  /\ activeCycles = 0
  /\ cycleLog = NewLog
  /\ remoteData = NoUpdates
  /\ db0 = db

SpecAuth == InitAuth /\ [][NextSync]_vars

\* ------------------------------------------------------ the pull alone
LocalRecords(s) ==
  [id : IdsOf(s), title : {"A"}, completed : {FALSE},
   updatedAt : {NaT} \cup (0..MaxTime), synced : {TRUE}]

StoresOf(s) == {EmptyStore} \cup {Put(EmptyStore, r) : r \in LocalRecords(s)}

InitPull ==
  /\ now \in 1..MaxTime
  /\ online = TRUE
  /\ appIsOffline = FALSE
  /\ db \in [tasks : StoresOf("tasks"), expenses : StoresOf("expenses"),
             journal : {EmptyStore}]
  /\ syncQueue = EmptyStore
  /\ nextKey = 1
  /\ fails = EmptyStore
  /\ lastSync = 0
  /\ isSyncing = TRUE
  /\ offlineQueue = <<>>
  /\ pc = "pull"
  /\ pendingItems = <<>>
  /\ idx = 0
  /\ held = NoHeld
  /\ unsynced = <<>>
  /\ cur = 0
  /\ pos = 0
  /\ updates = NoUpdates
  /\ ui = [op |-> "idle"]
  /\ maint = [op |-> "idle"]
  /\ habits = EmptyStore
  /\ broken = {}
  /\ credential = TRUE
  /\ lastCall = [op |-> "none"]
  /\ analytics = EmptyStore
  /\ inFlight = {}
  /\ cache = EmptyStore
  /\ sw = [op |-> "idle"]
  /\ remote = EmptyStore
  /\ activeCycles = 1
  /\ cycleLog = NewLog
  /\ remoteData \in Deltas
  /\ db0 = db

\* syncAll reaches fetchRemoteChanges again (sync.js:74), with nothing
\* drained and nothing pushed before it
Repull ==
  /\ pc = "idle"
  /\ pc' = "pull"
  /\ isSyncing' = TRUE
  /\ activeCycles' = activeCycles + 1
  /\ cycleLog' = NewLog
  /\ UNCHANGED <<pendingItems, idx, held, unsynced, cur, pos, updates>>
  /\ UNCHANGED <<now, online, appIsOffline, db, syncQueue, nextKey, lastSync,
                 offlineQueue, ui, maint, fails>>
  /\ UNCHANGED harnessVars
  /\ UNCHANGED otherVars
  /\ UNCHANGED restVars

\* the remote answers every pull with the same delta
PullSame == \E ok \in BOOLEAN : FetchRequest(ok, remoteData)

NextPull ==
  \/ Repull
  \/ PullSame
  \/ ApplyStep
  \/ Finally

\* fetchRemoteChanges run again and again on one remote delta, with no
\* local mutation in between
SpecPull == InitPull /\ [][NextPull]_vars

\* ------------------------ queue maintenance: optimize, clearSyncQueue
\* (variant: the filter of optimize without the status test)
OldItemsAnyStatus(items, t) ==
  SortedKeys({k \in DOMAIN items : items[k].createdAt < t - ThirtyDays})

\* db.js:484-486  syncItems.filter(item => new Date(item.createdAt) <
\* thirtyDaysAgo && item.status === 'completed'), as the ids in getAll order
OldItems(items, t) ==
  SortedKeys({k \in DOMAIN items :
                items[k].createdAt < t - ThirtyDays /\ items[k].status = "completed"})

\* optimize resumes with syncItems = getAll('syncQueue'); reindexStore only logs
OptimizeRead ==
  /\ maint.op = "idle"
  /\ maint' = IF OldItems(syncQueue, now) = <<>> THEN [op |-> "idle"]
              ELSE [op |-> "optimize", syncItems |-> syncQueue,
                    items |-> OldItems(syncQueue, now)]
  /\ UNCHANGED <<now, online, appIsOffline, db, syncQueue, nextKey, lastSync,
                 offlineQueue, ui, fails>>
  /\ UNCHANGED cycleVars
  /\ UNCHANGED harnessVars
  /\ UNCHANGED otherVars
  /\ UNCHANGED restVars

\* clearSyncQueue resumes with pending = db.getPendingSyncItems()
ClearRead ==
  /\ maint.op = "idle"
  /\ LET pending == GetPendingSyncItems(syncQueue)
     IN IF Len(pending) = 0
        THEN maint' = [op |-> "idle"] /\ offlineQueue' = <<>>
        ELSE /\ maint' = [op |-> "clear",
                          items |-> [i \in 1..Len(pending) |-> pending[i].id]]
             /\ UNCHANGED offlineQueue
  /\ UNCHANGED <<now, online, appIsOffline, db, syncQueue, nextKey, lastSync,
                 ui, fails>>
  /\ UNCHANGED cycleVars
  /\ UNCHANGED harnessVars
  /\ UNCHANGED otherVars
  /\ UNCHANGED restVars

\* optimize or clearSyncQueue resumes after db.delete('syncQueue', item.id);
\* a rejection leaves the function; after its loop clearSyncQueue empties
\* offlineQueue
MaintDelete(fault) ==
  /\ maint.op \in {"optimize", "clear"}
  /\ IF fault
     THEN maint' = [op |-> "idle"] /\ UNCHANGED <<syncQueue, offlineQueue>>
     ELSE /\ syncQueue' = Remove(syncQueue, Head(maint.items))
          /\ maint' = IF Len(maint.items) = 1 THEN [op |-> "idle"]
                      ELSE [maint EXCEPT !.items = Tail(@)]
          /\ offlineQueue' = IF maint.op = "clear" /\ Len(maint.items) = 1
                             THEN <<>> ELSE offlineQueue
  /\ UNCHANGED <<now, online, appIsOffline, db, nextKey, lastSync, ui, fails>>
  /\ UNCHANGED cycleVars
  /\ UNCHANGED harnessVars
  /\ UNCHANGED otherVars
  /\ UNCHANGED restVars

MaintStep ==
  \/ OptimizeRead
  \/ ClearRead
  \/ \E fault \in Faults : MaintDelete(fault)

\* an entry as the store holds it: enqueued at time t, then left pending,
\* completed by markSyncItemComplete or marked failed
StoredEntry(key, type, status, t) ==
  LET e == [id |-> key, type |-> type, data |-> [id |-> "t1"],
            status |-> status, createdAt |-> t,
            attempts |-> IF status = "failed" THEN maxRetries ELSE 0]
  IN IF status = "completed"
     THEN [x \in (DOMAIN e) \cup {"completedAt"} |->
             IF x = "completedAt" THEN t ELSE e[x]]
     ELSE e

Statuses == {"pending", "completed", "failed"}

\* type and status of a stored entry: an entry without handler is never
\* dispatched, so it is pending
EntryKinds ==
  ({"task"} \X Statuses) \cup {<<"task-delete", "pending">>}

\* the queues of at most MaxQueue entries enqueued at times 0 .. MaxTime
StoredQueues ==
  {[k \in DOMAIN c |-> StoredEntry(k, c[k][1][1], c[k][1][2], c[k][2])] :
     c \in UNION {[1..n -> EntryKinds \X (0..MaxTime)] : n \in 0..MaxQueue}}

\* the application some time later: a queue of old and recent entries of
\* every status, one unsynced task, no cycle running
InitMaint ==
  /\ now = MaxTime + ThirtyDays
  /\ online \in BOOLEAN
  /\ appIsOffline = ~online
  /\ db = [tasks |-> Put(EmptyStore, [NewTask("t1", "A") EXCEPT !.updatedAt = 0]),
           expenses |-> EmptyStore, journal |-> EmptyStore]
  /\ syncQueue \in StoredQueues
  /\ nextKey = Cardinality(DOMAIN syncQueue) + 1
  /\ fails = EmptyStore
  /\ lastSync = 0
  /\ isSyncing = FALSE
  /\ offlineQueue = <<>>
  /\ pc = "idle"
  /\ pendingItems = <<>>
  /\ idx = 0
  /\ held = NoHeld
  /\ unsynced = <<>>
  /\ cur = 0
  /\ pos = 0
  /\ updates = NoUpdates
  /\ ui = [op |-> "idle"]
  /\ maint = [op |-> "idle"]
  /\ habits = EmptyStore
  /\ broken = {}
  /\ credential = TRUE
  /\ lastCall = [op |-> "none"]
  /\ analytics = EmptyStore
  /\ inFlight = {}
  /\ cache = EmptyStore
  /\ sw = [op |-> "idle"]
  /\ remote = EmptyStore
  /\ activeCycles = 0
  /\ cycleLog = NewLog
  /\ remoteData = NoUpdates
  /\ db0 = db

NextMaint ==
  \/ Triggers
  \/ DrainStep
  \/ PushStep
  \/ PullNothing
  \/ Finally
  \/ MaintStep

\* the sync cycle and the queue maintenance on a queue with history
SpecMaint == InitMaint /\ [][NextMaint]_vars

NextQueue ==
  \/ NextMaint
  \/ UiStep

\* the same with the UI mutations, which enqueue
SpecQueue == InitMaint /\ [][NextQueue]_vars

\* ------------------------------------------- restoring a backup: importData
\* a backup file or the answer to GET /api/backup/latest: data and version
\* present or not, the app name, the collections
Backups ==
  {b \in [hasData : BOOLEAN, hasVersion : BOOLEAN,
          app : {"DailyTrack", "Other"}, data : Deltas] :
     ~b.hasData => b.data = NoUpdates}

\* importData has returned (result "ok") or thrown
Imported(result) ==
  [op |-> "imported", result |-> result, backup |-> maint.backup,
   before |-> maint.before]

\* variant: an importData that merges, inserting without clearing first
ImportDataMerging(b) ==
  /\ maint' = IF ~b.hasData \/ ~b.hasVersion
              THEN [op |-> "imported", result |-> "invalid", backup |-> b,
                    before |-> db]
              ELSE IF NextBatch(b.data, 0) = 0
              THEN [op |-> "imported", result |-> "ok", backup |-> b,
                    before |-> db]
              ELSE [op |-> "import", phase |-> "add",
                    store |-> NextBatch(b.data, 0), pos |-> 1,
                    backup |-> b, before |-> db]
  /\ UNCHANGED db

\* db.js:412-415  if (!backupData.data || !backupData.version) throw;
\* otherwise the first clearStore is issued
ImportData(b) ==
  /\ maint' = IF ~b.hasData \/ ~b.hasVersion
              THEN [op |-> "imported", result |-> "invalid", backup |-> b,
                    before |-> db]
              ELSE [op |-> "import", phase |-> "clear", store |-> 1, pos |-> 0,
                    backup |-> b, before |-> db]
  /\ UNCHANGED db

\* app.js validateBackup
ValidateBackup(b) == b.hasData /\ b.hasVersion /\ b.app = "DailyTrack"

\* restoreData: the file is parsed and validated, the user confirms
RestoreData(b) ==
  /\ maint.op = "idle"
  /\ IF ValidateBackup(b)
     THEN ImportData(b)
     ELSE /\ maint' = [op |-> "imported", result |-> "invalid", backup |-> b,
                       before |-> db]
          /\ UNCHANGED db
  /\ UNCHANGED <<now, online, appIsOffline, syncQueue, nextKey, lastSync,
                 offlineQueue, ui, fails>>
  /\ UNCHANGED cycleVars
  /\ UNCHANGED harnessVars
  /\ UNCHANGED otherVars
  /\ UNCHANGED restVars

\* restoreFromCloud resumes with the answer to GET /api/backup/latest and
\* hands it to importData; whatever is thrown is logged and false is returned
RestoreFromCloud(ok, b) ==
  /\ maint.op = "idle"
  /\ TransportCan(ok)
  /\ IF ok
     THEN ImportData(b)
     ELSE /\ maint' = [op |-> "imported", result |-> "transport", backup |-> b,
                       before |-> db]
          /\ UNCHANGED db
  /\ UNCHANGED <<now, online, appIsOffline, syncQueue, nextKey, lastSync,
                 offlineQueue, ui, fails>>
  /\ UNCHANGED cycleVars
  /\ UNCHANGED harnessVars
  /\ UNCHANGED otherVars
  /\ UNCHANGED restVars

\* getAll(store): the records in key order
GetAll(store) ==
  LET ids == SortedIds(DOMAIN store)
  IN [i \in 1..Len(ids) |-> store[ids[i]]]

\* variant: an export that reads the tasks only
ExportDataTasksOnly(stores) ==
  [hasData |-> TRUE, hasVersion |-> TRUE, app |-> "DailyTrack",
   data |-> [s \in DOMAIN stores |->
               IF s = "tasks" THEN GetAll(stores[s]) ELSE <<>>]]

\* exportData: getAll of every covered store, version '2.0', app 'DailyTrack'
ExportData(stores) ==
  [hasData |-> TRUE, hasVersion |-> TRUE, app |-> "DailyTrack",
   data |-> [s \in DOMAIN stores |-> GetAll(stores[s])]]

\* importData(exportData()): the export of the stores is imported back
ExportImport ==
  /\ maint.op = "idle"
  /\ ImportData(ExportData(db))
  /\ UNCHANGED <<now, online, appIsOffline, syncQueue, nextKey, lastSync,
                 offlineQueue, ui, fails>>
  /\ UNCHANGED cycleVars
  /\ UNCHANGED harnessVars
  /\ UNCHANGED otherVars
  /\ UNCHANGED restVars

\* the import loop reaches the first item of the next non-empty collection
\* after number c, or importData returns true
ImportNext(c) ==
  LET n == NextBatch(maint.backup.data, c)
  IN IF n = 0 THEN Imported("ok")
     ELSE [maint EXCEPT !.phase = "add", !.store = n, !.pos = 1]

\* importData resumes after clearStore(store)
ImportClear(fault) ==
  /\ maint.op = "import" /\ maint.phase = "clear"
  /\ IF fault
     THEN maint' = Imported("failed") /\ UNCHANGED db
     ELSE /\ db' = [db EXCEPT ![StoreNames[maint.store]] = EmptyStore]
          /\ maint' = IF maint.store < Len(StoreNames)
                      THEN [maint EXCEPT !.store = @ + 1]
                      ELSE ImportNext(0)
  /\ UNCHANGED <<now, online, appIsOffline, syncQueue, nextKey, lastSync,
                 offlineQueue, ui, fails>>
  /\ UNCHANGED cycleVars
  /\ UNCHANGED harnessVars
  /\ UNCHANGED otherVars
  /\ UNCHANGED restVars

\* importData resumes after this.add(storeName, item), which rejects when
\* the key is in the store already
ImportAdd(fault) ==
  /\ maint.op = "import" /\ maint.phase = "add"
  /\ LET name == StoreNames[maint.store]
         items == maint.backup.data[name]
         item == items[maint.pos]
     IN IF fault \/ AddRejected(db[name], item)
        THEN maint' = Imported("failed") /\ UNCHANGED db
        ELSE /\ db' = [db EXCEPT ![name] = Put(@, item)]
             /\ maint' = IF maint.pos < Len(items)
                         THEN [maint EXCEPT !.pos = @ + 1]
                         ELSE ImportNext(maint.store)
  /\ UNCHANGED <<now, online, appIsOffline, syncQueue, nextKey, lastSync,
                 offlineQueue, ui, fails>>
  /\ UNCHANGED cycleVars
  /\ UNCHANGED harnessVars
  /\ UNCHANGED otherVars
  /\ UNCHANGED restVars

\* the application with some records stored, no cycle running
InitBackup ==
  /\ now \in 1..MaxTime
  /\ online = TRUE
  /\ appIsOffline = FALSE
  /\ db \in [tasks : StoresOf("tasks"), expenses : StoresOf("expenses"),
             journal : {EmptyStore}]
  /\ syncQueue = EmptyStore
  /\ nextKey = 1
  /\ fails = EmptyStore
  /\ lastSync = 0
  /\ isSyncing = FALSE
  /\ offlineQueue = <<>>
  /\ pc = "idle"
  /\ pendingItems = <<>>
  /\ idx = 0
  /\ held = NoHeld
  /\ unsynced = <<>>
  /\ cur = 0
  /\ pos = 0
  /\ updates = NoUpdates
  /\ ui = [op |-> "idle"]
  /\ maint = [op |-> "idle"]
  /\ habits = EmptyStore
  /\ broken = {}
  /\ credential = TRUE
  /\ lastCall = [op |-> "none"]
  /\ analytics = EmptyStore
  /\ inFlight = {}
  /\ cache = EmptyStore
  /\ sw = [op |-> "idle"]
  /\ remote = EmptyStore
  /\ activeCycles = 0
  /\ cycleLog = NewLog
  /\ remoteData = NoUpdates
  /\ db0 = db

NextBackup ==
  \/ \E b \in Backups : RestoreData(b)
  \/ \E ok \in BOOLEAN, b \in Backups : RestoreFromCloud(ok, b)
  \/ ExportImport
  \/ \E fault \in Faults : ImportClear(fault)
  \/ \E fault \in Faults : ImportAdd(fault)

\* one restore of a backup, from a file, from the cloud or from an export
SpecBackup == InitBackup /\ [][NextBackup]_vars

\* ------------------------------------------------ habits: logHabitCompletion
\* calendar days are numbered; in this part the clock now counts days
MaxDay == 4
MaxLogs == 3
\* no date: the argument left out, a habit never completed
NoDate == -1

HabitIds == {"h1", "h2"}

\* a habit that was never completed
NewHabit(id) ==
  [id |-> id, currentStreak |-> 0, longestStreak |-> 0,
   lastCompleted |-> NoDate, completionHistory |-> <<>>]

Max(a, b) == IF a >= b THEN a ELSE b

\* variant: without the early return for the day already logged
LogHabitNoDayCheck(habit, date, wall) ==
  LET today == IF date = NoDate THEN wall ELSE date
      lastCompletion == habit.lastCompleted
      streak == IF lastCompletion # NoDate /\ lastCompletion = wall - 1
                THEN habit.currentStreak + 1 ELSE 1
      longest == IF lastCompletion = NoDate THEN 1
                 ELSE IF lastCompletion = wall - 1
                 THEN Max(habit.longestStreak, streak)
                 ELSE habit.longestStreak
  IN [habit EXCEPT !.currentStreak = streak, !.longestStreak = longest,
                   !.lastCompleted = today,
                   !.completionHistory = Append(@, today)]

\* db.js:302-331  the habit as logHabitCompletion leaves it: today is the date
\* argument or the day of the clock, yesterday is the day before the day of
\* the clock; lastCompleted is a day string, which new Date(..).toISOString()
\* gives back as it is
LogHabitCompletion(habit, date, wall) ==
  LET today == IF date = NoDate THEN wall ELSE date
      lastCompletion == habit.lastCompleted
      yesterday == wall - 1
  IN IF lastCompletion = today THEN habit
     ELSE LET streak == IF lastCompletion # NoDate /\ lastCompletion = yesterday
                        THEN habit.currentStreak + 1 ELSE 1
              longest == IF lastCompletion = NoDate THEN 1
                         ELSE IF lastCompletion = yesterday
                         THEN Max(habit.longestStreak, streak)
                         ELSE habit.longestStreak
          IN [habit EXCEPT !.currentStreak = streak, !.longestStreak = longest,
                           !.lastCompleted = today,
                           !.completionHistory = Append(@, today)]

\* logHabitCompletion(habitId, date) is called: the get is issued
LogHabitCall(id, date) ==
  /\ ui.op = "idle"
  /\ id \in DOMAIN habits => Len(habits[id].completionHistory) < MaxLogs
  /\ ui' = [op |-> "habitGet", id |-> id, date |-> date]
  /\ UNCHANGED <<now, online, appIsOffline, db, syncQueue, nextKey, lastSync,
                 offlineQueue, maint, fails>>
  /\ UNCHANGED cycleVars
  /\ UNCHANGED harnessVars
  /\ UNCHANGED otherVars
  /\ UNCHANGED restVars

\* logHabitCompletion resumes with the habit: null is returned when there is
\* none, the habit as it is on the day already logged, else the update
LogHabitResume(fault) ==
  /\ ui.op = "habitGet"
  /\ ui' = [op |-> "idle"]
  /\ IF ui.id \notin DOMAIN habits
     THEN /\ lastCall' = [op |-> "logHabit", id |-> ui.id, result |-> "null"]
          /\ UNCHANGED habits
     ELSE LET habit == habits[ui.id]
              after == LogHabitCompletion(habit, ui.date, now)
          IN /\ habits' = IF fault THEN habits ELSE Put(habits, after)
             /\ lastCall' = [op |-> "logHabit", id |-> ui.id,
                             date |-> IF ui.date = NoDate THEN now ELSE ui.date,
                             wall |-> now, before |-> habit,
                             result |-> IF fault /\ after # habit
                                        THEN "failed" ELSE "ok"]
  /\ UNCHANGED <<now, online, appIsOffline, db, syncQueue, nextKey, lastSync,
                 offlineQueue, maint, fails>>
  /\ UNCHANGED cycleVars
  /\ UNCHANGED harnessVars
  /\ UNCHANGED otherVars
  /\ UNCHANGED <<broken, credential>>

\* midnight passes
NextDay ==
  /\ now < MaxDay
  /\ now' = now + 1
  /\ UNCHANGED <<online, appIsOffline, db, syncQueue, nextKey, lastSync,
                 offlineQueue, ui, maint, fails>>
  /\ UNCHANGED cycleVars
  /\ UNCHANGED harnessVars
  /\ UNCHANGED otherVars
  /\ UNCHANGED restVars

\* one habit stored and never completed, on day 0
InitHabit ==
  /\ now = 0
  /\ online = TRUE
  /\ appIsOffline = FALSE
  /\ db = [tasks |-> EmptyStore, expenses |-> EmptyStore, journal |-> EmptyStore]
  /\ syncQueue = EmptyStore
  /\ nextKey = 1
  /\ fails = EmptyStore
  /\ lastSync = 0
  /\ isSyncing = FALSE
  /\ offlineQueue = <<>>
  /\ pc = "idle"
  /\ pendingItems = <<>>
  /\ idx = 0
  /\ held = NoHeld
  /\ unsynced = <<>>
  /\ cur = 0
  /\ pos = 0
  /\ updates = NoUpdates
  /\ ui = [op |-> "idle"]
  /\ maint = [op |-> "idle"]
  /\ habits = Put(EmptyStore, NewHabit("h1"))
  /\ broken = {}
  /\ credential = TRUE
  /\ lastCall = [op |-> "none"]
  /\ analytics = EmptyStore
  /\ inFlight = {}
  /\ cache = EmptyStore
  /\ sw = [op |-> "idle"]
  /\ remote = EmptyStore
  /\ activeCycles = 0
  /\ cycleLog = NewLog
  /\ remoteData = NoUpdates
  /\ db0 = db

NextHabit ==
  \/ NextDay
  \/ \E id \in HabitIds, date \in {NoDate} \cup (0..MaxDay) : LogHabitCall(id, date)
  \/ \E fault \in Faults : LogHabitResume(fault)

\* completions of a habit logged over some days
SpecHabit == InitHabit /\ [][NextHabit]_vars

\* the largest streak a stored habit starts with
MaxStreak == 2

\* habit records as importData can put them into the store (db.js:418-428
\* stores whatever the backup holds): any streak counters with
\* longestStreak >= currentStreak >= 0, completed on day 0 or never
StartHabits ==
  {h \in [id : {"h1"}, currentStreak : 0..MaxStreak,
          longestStreak : 0..MaxStreak, lastCompleted : {NoDate, 0},
          completionHistory : {<<>>}] :
     h.longestStreak >= h.currentStreak}

\* one stored habit with any such counters, on day 0
InitStreak ==
  /\ now = 0
  /\ online = TRUE
  /\ appIsOffline = FALSE
  /\ db = [tasks |-> EmptyStore, expenses |-> EmptyStore, journal |-> EmptyStore]
  /\ syncQueue = EmptyStore
  /\ nextKey = 1
  /\ fails = EmptyStore
  /\ lastSync = 0
  /\ isSyncing = FALSE
  /\ offlineQueue = <<>>
  /\ pc = "idle"
  /\ pendingItems = <<>>
  /\ idx = 0
  /\ held = NoHeld
  /\ unsynced = <<>>
  /\ cur = 0
  /\ pos = 0
  /\ updates = NoUpdates
  /\ ui = [op |-> "idle"]
  /\ maint = [op |-> "idle"]
  /\ habits \in {Put(EmptyStore, h) : h \in StartHabits}
  /\ broken = {}
  /\ credential = TRUE
  /\ lastCall = [op |-> "none"]
  /\ analytics = EmptyStore
  /\ inFlight = {}
  /\ cache = EmptyStore
  /\ sw = [op |-> "idle"]
  /\ remote = EmptyStore
  /\ activeCycles = 0
  /\ cycleLog = NewLog
  /\ remoteData = NoUpdates
  /\ db0 = db

\* completions logged over some days on a habit that was stored with counters
SpecStreak == InitStreak /\ [][NextHabit]_vars

\* ------------------------------------------------- startup: validate, repair
\* the stores validate counts
ValidatedStores == {"tasks", "expenses", "habits", "journal"}

\* validate: count(store) of every validated store; false when one throws
Validate(fault) == broken \cap ValidatedStores = {} /\ ~fault

\* the covered stores the model holds
Covered ==
  [s \in DOMAIN db \cup {"habits"} |-> IF s = "habits" THEN habits ELSE db[s]]

\* repair has returned (result "valid" or "recreated") or thrown ("failed")
Repaired(result) ==
  [op |-> "repaired", result |-> result, before |-> Covered,
   snapshot |-> IF "snapshot" \in DOMAIN maint THEN maint.snapshot
                ELSE [hasData |-> FALSE]]

\* initCoreModules resumes with the result of db.validate() and calls
\* db.repair() when it is false
AppValidate(fault) ==
  /\ maint.op = "idle"
  /\ maint' = IF Validate(fault) THEN [op |-> "started"]
              ELSE [op |-> "repair", phase |-> "validate"]
  /\ UNCHANGED <<now, online, appIsOffline, db, syncQueue, nextKey, lastSync,
                 offlineQueue, ui, fails>>
  /\ UNCHANGED cycleVars
  /\ UNCHANGED harnessVars
  /\ UNCHANGED otherVars
  /\ UNCHANGED restVars

\* repair resumes with the result of its own validate()
RepairValidate(fault) ==
  /\ maint.op = "repair" /\ maint.phase = "validate"
  /\ maint' = IF Validate(fault) THEN Repaired("valid")
              ELSE [op |-> "repair", phase |-> "backup"]
  /\ UNCHANGED <<now, online, appIsOffline, db, syncQueue, nextKey, lastSync,
                 offlineQueue, ui, fails>>
  /\ UNCHANGED cycleVars
  /\ UNCHANGED harnessVars
  /\ UNCHANGED otherVars
  /\ UNCHANGED restVars

\* backupCorruptedData: exportData reads every covered store with getAll,
\* which throws on a store that cannot be accessed; the export goes to
\* localStorage 'DailyTrack_backup_before_repair'
BackupCorruptedData ==
  /\ maint.op = "repair" /\ maint.phase = "backup"
  /\ maint' = IF broken \cap DOMAIN Covered # {} THEN Repaired("failed")
              ELSE [op |-> "repair", phase |-> "recreate",
                    snapshot |-> ExportData(Covered)]
  /\ UNCHANGED <<now, online, appIsOffline, db, syncQueue, nextKey, lastSync,
                 offlineQueue, ui, fails>>
  /\ UNCHANGED cycleVars
  /\ UNCHANGED harnessVars
  /\ UNCHANGED otherVars
  /\ UNCHANGED restVars

\* recreateDatabase: the connection is closed, the database deleted and
\* init creates the stores again, empty; localStorage is not touched
RecreateDatabase ==
  /\ maint.op = "repair" /\ maint.phase = "recreate"
  /\ db' = [s \in DOMAIN db |-> EmptyStore]
  /\ habits' = EmptyStore
  /\ syncQueue' = EmptyStore
  /\ nextKey' = 1
  /\ broken' = {}
  /\ maint' = Repaired("recreated")
  /\ UNCHANGED <<now, online, appIsOffline, lastSync, offlineQueue, ui, fails>>
  /\ UNCHANGED cycleVars
  /\ UNCHANGED harnessVars
  /\ UNCHANGED otherVars
  /\ UNCHANGED <<credential, lastCall>>

\* the application is started on a Local Store that was synced before, of
\* which some stores may not be accessible
InitRepair ==
  /\ now \in 1..MaxTime
  /\ online = TRUE
  /\ appIsOffline = FALSE
  /\ db \in [tasks : StoresOf("tasks"), expenses : StoresOf("expenses"),
             journal : {EmptyStore}]
  /\ syncQueue = EmptyStore
  /\ nextKey = 1
  /\ fails = EmptyStore
  /\ lastSync \in 0..now
  /\ isSyncing = FALSE
  /\ offlineQueue = <<>>
  /\ pc = "idle"
  /\ pendingItems = <<>>
  /\ idx = 0
  /\ held = NoHeld
  /\ unsynced = <<>>
  /\ cur = 0
  /\ pos = 0
  /\ updates = NoUpdates
  /\ ui = [op |-> "idle"]
  /\ maint = [op |-> "idle"]
  /\ habits \in {EmptyStore, Put(EmptyStore, NewHabit("h1"))}
  /\ broken \in SUBSET ValidatedStores
  /\ credential = TRUE
  /\ lastCall = [op |-> "none"]
  /\ analytics = EmptyStore
  /\ inFlight = {}
  /\ cache = EmptyStore
  /\ sw = [op |-> "idle"]
  /\ remote = EmptyStore
  /\ activeCycles = 0
  /\ cycleLog = NewLog
  /\ remoteData = NoUpdates
  /\ db0 = db

NextRepair ==
  \/ \E fault \in Faults : AppValidate(fault)
  \/ \E fault \in Faults : RepairValidate(fault)
  \/ BackupCorruptedData
  \/ RecreateDatabase

\* the corruption check of the startup
SpecRepair == InitRepair /\ [][NextRepair]_vars

\* ------------------------------------------ the store calls: add, update, delete
\* db.add(storeName, data): store.add
Add(s, rec) ==
  /\ db' = IF AddRejected(db[s], rec) THEN db
           ELSE [db EXCEPT ![s] = Put(@, rec)]
  /\ lastCall' = [op |-> "add", store |-> s, rec |-> rec, before |-> db[s],
                  result |-> IF AddRejected(db[s], rec)
                             THEN "ConstraintError" ELSE "ok"]
  /\ UNCHANGED <<now, online, appIsOffline, syncQueue, nextKey, lastSync,
                 offlineQueue, ui, maint, fails>>
  /\ UNCHANGED cycleVars
  /\ UNCHANGED harnessVars
  /\ UNCHANGED otherVars
  /\ UNCHANGED <<habits, broken, credential>>

\* db.update(storeName, data): store.put
Update(s, rec) ==
  /\ db' = [db EXCEPT ![s] = Put(@, rec)]
  /\ lastCall' = [op |-> "update", store |-> s, rec |-> rec, before |-> db[s],
                  result |-> "ok"]
  /\ UNCHANGED <<now, online, appIsOffline, syncQueue, nextKey, lastSync,
                 offlineQueue, ui, maint, fails>>
  /\ UNCHANGED cycleVars
  /\ UNCHANGED harnessVars
  /\ UNCHANGED otherVars
  /\ UNCHANGED <<habits, broken, credential>>

\* db.delete(storeName, key): store.delete
Delete(s, key) ==
  /\ db' = [db EXCEPT ![s] = Remove(@, key)]
  /\ lastCall' = [op |-> "delete", store |-> s, rec |-> [id |-> key],
                  before |-> db[s], result |-> "ok"]
  /\ UNCHANGED <<now, online, appIsOffline, syncQueue, nextKey, lastSync,
                 offlineQueue, ui, maint, fails>>
  /\ UNCHANGED cycleVars
  /\ UNCHANGED harnessVars
  /\ UNCHANGED otherVars
  /\ UNCHANGED <<habits, broken, credential>>

\* the records a caller may hand to a store
CallRecords(s) == LocalRecords(s) \cup Incoming(s)

\* the calls: a store and a record, of which delete takes the id
Calls ==
  UNION {{[store |-> s, rec |-> r] : r \in CallRecords(s)} : s \in DOMAIN db}

NextStore ==
  \/ \E c \in Calls : Add(c.store, c.rec)
  \/ \E c \in Calls : Update(c.store, c.rec)
  \/ \E c \in Calls : Delete(c.store, c.rec.id)

\* calls of the store primitives on stores that hold some records
SpecStore == InitBackup /\ [][NextStore]_vars

\* ------------------------------------------------ analytics: recordAnalytics
MaxCalls == 2
Metrics == {"sync", "performance"}
Values == {1, 2}

\* existing[metric] = value; existing.updatedAt = new Date()
WithMetric(rec, metric, value, t) ==
  [k \in DOMAIN rec \cup {metric} |->
     IF k = metric THEN value ELSE IF k = "updatedAt" THEN t ELSE rec[k]]

\* { date: today, [metric]: value, createdAt, updatedAt }
NewAnalytics(date, metric, value, t) ==
  [k \in {"date", metric, "createdAt", "updatedAt"} |->
     IF k = "date" THEN date ELSE IF k = metric THEN value ELSE t]

\* recordAnalytics(metric, value, date) is called: today is the date or the
\* day of the clock, and the get is issued
RecordAnalytics(metric, value, date) ==
  /\ Cardinality(inFlight) < MaxCalls
  /\ inFlight' = inFlight \cup
       {[phase |-> "get", metric |-> metric, value |-> value,
         date |-> IF date = NoDate THEN now ELSE date]}
  /\ UNCHANGED <<now, online, appIsOffline, db, syncQueue, nextKey, lastSync,
                 offlineQueue, ui, maint, fails>>
  /\ UNCHANGED cycleVars
  /\ UNCHANGED harnessVars
  /\ UNCHANGED restVars
  /\ UNCHANGED <<analytics, cache, sw, remote>>

\* recordAnalytics resumes with existing = get('analytics', today) and issues
\* the update of the record it read with the metric set, or the add of a new one
AnalyticsGet(c) ==
  /\ c \in inFlight /\ c.phase = "get"
  /\ LET write == IF c.date \in DOMAIN analytics
                  THEN [phase |-> "update", metric |-> c.metric,
                        value |-> c.value, date |-> c.date,
                        rec |-> WithMetric(analytics[c.date], c.metric, c.value, now)]
                  ELSE [phase |-> "add", metric |-> c.metric,
                        value |-> c.value, date |-> c.date,
                        rec |-> NewAnalytics(c.date, c.metric, c.value, now)]
     IN inFlight' = (inFlight \ {c}) \cup {write}
  /\ UNCHANGED <<now, online, appIsOffline, db, syncQueue, nextKey, lastSync,
                 offlineQueue, ui, maint, fails>>
  /\ UNCHANGED cycleVars
  /\ UNCHANGED harnessVars
  /\ UNCHANGED restVars
  /\ UNCHANGED <<analytics, cache, sw, remote>>

\* recordAnalytics resumes after its update (a put) or its add, which
\* rejects when the date has a record by now
AnalyticsWrite(c) ==
  /\ c \in inFlight /\ c.phase \in {"update", "add"}
  /\ inFlight' = inFlight \ {c}
  /\ LET rejected == c.phase = "add" /\ c.date \in DOMAIN analytics
     IN /\ analytics' = IF rejected THEN analytics
                        ELSE [d \in DOMAIN analytics \cup {c.date} |->
                                IF d = c.date THEN c.rec ELSE analytics[d]]
        /\ lastCall' = [op |-> "recordAnalytics", metric |-> c.metric,
                        value |-> c.value, date |-> c.date,
                        result |-> IF rejected THEN "ConstraintError" ELSE "ok"]
  /\ UNCHANGED <<now, online, appIsOffline, db, syncQueue, nextKey, lastSync,
                 offlineQueue, ui, maint, fails>>
  /\ UNCHANGED cycleVars
  /\ UNCHANGED harnessVars
  /\ UNCHANGED <<habits, broken, credential>>
  /\ UNCHANGED <<cache, sw, remote>>

\* no analytics recorded yet
InitAnalytics ==
  /\ now = 0
  /\ online = TRUE
  /\ appIsOffline = FALSE
  /\ db = [tasks |-> EmptyStore, expenses |-> EmptyStore, journal |-> EmptyStore]
  /\ syncQueue = EmptyStore
  /\ nextKey = 1
  /\ fails = EmptyStore
  /\ lastSync = 0
  /\ isSyncing = FALSE
  /\ offlineQueue = <<>>
  /\ pc = "idle"
  /\ pendingItems = <<>>
  /\ idx = 0
  /\ held = NoHeld
  /\ unsynced = <<>>
  /\ cur = 0
  /\ pos = 0
  /\ updates = NoUpdates
  /\ ui = [op |-> "idle"]
  /\ maint = [op |-> "idle"]
  /\ habits = EmptyStore
  /\ broken = {}
  /\ credential = TRUE
  /\ lastCall = [op |-> "none"]
  /\ analytics = EmptyStore
  /\ inFlight = {}
  /\ cache = EmptyStore
  /\ sw = [op |-> "idle"]
  /\ remote = EmptyStore
  /\ activeCycles = 0
  /\ cycleLog = NewLog
  /\ remoteData = NoUpdates
  /\ db0 = db

NextAnalytics ==
  \/ Tick
  \/ \E metric \in Metrics, value \in Values, date \in {NoDate, 0} :
       RecordAnalytics(metric, value, date)
  \/ \E c \in inFlight : AnalyticsGet(c)
  \/ \E c \in inFlight : AnalyticsWrite(c)

\* metrics recorded by the callers of recordAnalytics, which do not wait for
\* one another
SpecAnalytics == InitAnalytics /\ [][NextAnalytics]_vars

\* --------------------------------------------- the service worker: fetch event
\* a URL is a scheme, an authority (host, then the port if it is not the
\* default one) and a path, each a sequence of parts; hosts are in lower
\* case, as URL.hostname gives them
MaxVersion == 2
SelfScheme == "https:"
SelfAuthority == <<"dailytrack.app">>
\* sw.js:150  url.hostname === 'api.DailyTrack.com'
ApiHost == "api.DailyTrack.com"

Req(method, scheme, authority, path, mode) ==
  [method |-> method, scheme |-> scheme, authority |-> authority,
   path |-> path, mode |-> mode]

\* the requests of a controlled page
Requests ==
  {Req("GET", "https:", <<"dailytrack.app">>, <<"api", "tasks">>, "cors"),
   Req("POST", "https:", <<"dailytrack.app">>, <<"api", "tasks">>, "cors"),
   Req("GET", "chrome-extension:", <<"ext">>, <<"inject.js">>, "no-cors"),
   Req("GET", "moz-extension:", <<"ext">>, <<"inject.js">>, "no-cors"),
   Req("GET", "https:", <<"dailytrack.app">>, <<"dashboard">>, "navigate"),
   Req("GET", "https:", <<"dailytrack.app">>, <<"docs", "api", "intro">>, "navigate"),
   Req("GET", "https:", <<"dailytrack.app">>, <<"data.json">>, "cors"),
   Req("GET", "https:", <<"dailytrack.app">>, <<"app.js">>, "no-cors"),
   Req("GET", "https:", <<"dailytrack.app">>, <<"logo.svg">>, "navigate"),
   Req("GET", "https:", <<"dailytrack.app", ":8443">>, <<"lib.js">>, "cors"),
   Req("GET", "https:", <<"cdnjs.cloudflare.com">>, <<"all.min.css">>, "cors"),
   Req("GET", "https:", <<"api.dailytrack.com">>, <<"tasks">>, "cors")}

\* the extension a file name ends with
Extension(name) ==
  IF name \in {"app.js", "lib.js", "inject.js"} THEN ".js"
  ELSE IF name = "all.min.css" THEN ".css"
  ELSE IF name = "logo.svg" THEN ".svg"
  ELSE IF name = "data.json" THEN ".json"
  ELSE IF name = "offline.html" THEN ".html"
  ELSE ""

IsPrefix(a, b) == Len(a) <= Len(b) /\ \A k \in 1..Len(a) : a[k] = b[k]

\* url.pathname.startsWith('/api/')
PathStartsWithApi(req) == Len(req.path) >= 2 /\ req.path[1] = "api"

\* request.url.includes('/api/')
UrlIncludesApi(req) == \E k \in 1..(Len(req.path) - 1) : req.path[k] = "api"

\* request.url.startsWith(self.location.origin)
UrlStartsWithOrigin(req) ==
  req.scheme = SelfScheme /\ IsPrefix(SelfAuthority, req.authority)

\* sw.js:155-163  the static assets
IsStaticAsset(req) ==
  \/ Extension(req.path[Len(req.path)]) \in {".css", ".js", ".png", ".jpg", ".svg"}
  \/ \E k \in 1..(Len(req.path) - 1) : req.path[k] = "fonts"
  \/ req.authority[1] = "cdnjs.cloudflare.com"

\* sw.js:144-169  what the fetch listener does with a request
Route(req) ==
  IF req.method # "GET" \/ req.scheme = "chrome-extension:" THEN "bypass"
  ELSE IF PathStartsWithApi(req) \/ req.authority[1] = ApiHost
  THEN "networkFirst"
  ELSE IF IsStaticAsset(req) THEN "cacheFirst"
  ELSE "networkFirst"

\* Cache Storage matches a GET request by its URL
Key(req) == <<req.scheme, req.authority, req.path>>
OfflineKey == <<SelfScheme, SelfAuthority, <<"offline.html">>>>

NetworkResponse(ok, v) == [kind |-> "network", ok |-> ok, v |-> v]
OfflinePage == [kind |-> "offlinePage", ok |-> TRUE, v |-> 0]
Placeholder == [kind |-> "placeholder", ok |-> TRUE, v |-> 0]
Failure == [kind |-> "error", ok |-> FALSE, v |-> 0]

\* the cache after an install that succeeded: the offline page is there
Precached == [k \in {OfflineKey} |-> OfflinePage]

\* caches.match: the response stored for the key, or undefined, with which
\* respondWith fails
Match(key) == IF key \in DOMAIN cache THEN cache[key] ELSE Failure

CachePut(key, resp) ==
  [k \in DOMAIN cache \cup {key} |-> IF k = key THEN resp ELSE cache[k]]

\* the handling of a fetch event is over
Handled(req, route, outcome, fetched, result) ==
  [op |-> "done", req |-> req, route |-> route, outcome |-> outcome,
   fetched |-> fetched, result |-> result, cacheBefore |-> cache]

\* the fetch listener runs for a request: it returns without responding, or
\* responds with networkFirstWithTimeout, which starts the fetch and the
\* timer, or with cacheFirst, which looks in the cache first
FetchEvent(req) ==
  /\ sw.op \in {"idle", "done"}
  /\ sw' = IF Route(req) = "bypass"
           THEN Handled(req, "bypass", "none", FALSE, [kind |-> "none"])
           ELSE IF Route(req) = "cacheFirst" /\ Key(req) \in DOMAIN cache
           THEN Handled(req, "cacheFirst", "none", FALSE, cache[Key(req)])
           ELSE [op |-> Route(req), req |-> req]
  /\ UNCHANGED <<now, online, appIsOffline, db, syncQueue, nextKey, lastSync,
                 offlineQueue, ui, maint, fails>>
  /\ UNCHANGED cycleVars
  /\ UNCHANGED harnessVars
  /\ UNCHANGED restVars
  /\ UNCHANGED <<analytics, inFlight, cache, remote>>

NetworkOutcomes == {"answer", "failure", "timeout"}

\* networkFirstWithTimeout resumes after the race: with the response of the
\* network, or in its catch block
NetworkFirstResume(outcome, ok, v) ==
  /\ sw.op = "networkFirst"
  /\ LET req == sw.req
         response == NetworkResponse(ok, v)
     IN IF outcome = "answer"
        THEN /\ cache' = IF response.ok /\ UrlIncludesApi(req)
                         THEN CachePut(Key(req), response) ELSE cache
             /\ sw' = Handled(req, "networkFirst", outcome, TRUE, response)
        ELSE /\ UNCHANGED cache
             /\ sw' = Handled(req, "networkFirst", outcome, TRUE,
                         IF Key(req) \in DOMAIN cache THEN cache[Key(req)]
                         ELSE IF UrlIncludesApi(req) THEN Placeholder
                         ELSE IF req.mode = "navigate" THEN Match(OfflineKey)
                         ELSE Failure)
  /\ UNCHANGED <<now, online, appIsOffline, db, syncQueue, nextKey, lastSync,
                 offlineQueue, ui, maint, fails>>
  /\ UNCHANGED cycleVars
  /\ UNCHANGED harnessVars
  /\ UNCHANGED restVars
  /\ UNCHANGED <<analytics, inFlight, remote>>

\* cacheFirst resumes after fetch(request): with the response, or in its
\* catch block
CacheFirstResume(outcome, ok, v) ==
  /\ sw.op = "cacheFirst"
  /\ outcome # "timeout"
  /\ LET req == sw.req
         response == NetworkResponse(ok, v)
     IN IF outcome = "answer"
        THEN /\ cache' = IF response.ok /\ UrlStartsWithOrigin(req)
                         THEN CachePut(Key(req), response) ELSE cache
             /\ sw' = Handled(req, "cacheFirst", outcome, TRUE, response)
        ELSE /\ UNCHANGED cache
             /\ sw' = Handled(req, "cacheFirst", outcome, TRUE,
                         IF req.mode = "navigate" THEN Match(OfflineKey)
                         ELSE Failure)
  /\ UNCHANGED <<now, online, appIsOffline, db, syncQueue, nextKey, lastSync,
                 offlineQueue, ui, maint, fails>>
  /\ UNCHANGED cycleVars
  /\ UNCHANGED harnessVars
  /\ UNCHANGED restVars
  /\ UNCHANGED <<analytics, inFlight, remote>>

\* the service worker installed, no request handled yet
InitWorker ==
  /\ now = 0
  /\ online = TRUE
  /\ appIsOffline = FALSE
  /\ db = [tasks |-> EmptyStore, expenses |-> EmptyStore, journal |-> EmptyStore]
  /\ syncQueue = EmptyStore
  /\ nextKey = 1
  /\ fails = EmptyStore
  /\ lastSync = 0
  /\ isSyncing = FALSE
  /\ offlineQueue = <<>>
  /\ pc = "idle"
  /\ pendingItems = <<>>
  /\ idx = 0
  /\ held = NoHeld
  /\ unsynced = <<>>
  /\ cur = 0
  /\ pos = 0
  /\ updates = NoUpdates
  /\ ui = [op |-> "idle"]
  /\ maint = [op |-> "idle"]
  /\ habits = EmptyStore
  /\ broken = {}
  /\ credential = TRUE
  /\ lastCall = [op |-> "none"]
  /\ analytics = EmptyStore
  /\ inFlight = {}
  /\ cache = Precached
  /\ sw = [op |-> "idle"]
  /\ remote = EmptyStore
  /\ activeCycles = 0
  /\ cycleLog = NewLog
  /\ remoteData = NoUpdates
  /\ db0 = db

NextWorker ==
  \/ \E req \in Requests : FetchEvent(req)
  \/ \E outcome \in NetworkOutcomes, ok \in BOOLEAN, v \in 1..MaxVersion :
       NetworkFirstResume(outcome, ok, v)
  \/ \E outcome \in NetworkOutcomes, ok \in BOOLEAN, v \in 1..MaxVersion :
       CacheFirstResume(outcome, ok, v)

\* the requests of a page the service worker controls, one at a time
SpecWorker == InitWorker /\ [][NextWorker]_vars

\* ------------------------------------------------ the pull against a remote
\* the entity store of a record id
StoreOfId(id) == CHOOSE s \in DOMAIN db : id \in IdsOf(s)

RemoteIds == {"t1", "e1"}

\* another device changes a record at the remote, which stamps it with the
\* time of the change; the clock has passed every checkpoint written so far
RemoteWrite(id) ==
  /\ now > lastSync
  /\ remote' = Put(remote, [id |-> id, title |-> "R", completed |-> FALSE,
                            updatedAt |-> now, synced |-> FALSE])
  /\ UNCHANGED <<now, online, appIsOffline, db, syncQueue, nextKey, lastSync,
                 offlineQueue, ui, maint, fails>>
  /\ UNCHANGED cycleVars
  /\ UNCHANGED harnessVars
  /\ UNCHANGED restVars
  /\ UNCHANGED <<analytics, inFlight, cache, sw>>

\* the answer to GET /api/sync?since=: per entity type, the records of the
\* remote changed after since
Since(since) ==
  [s \in DOMAIN db |->
     LET ids == SortedIds({i \in DOMAIN remote :
                             i \in IdsOf(s) /\ remote[i].updatedAt > since})
     IN [k \in 1..Len(ids) |-> remote[ids[k]]]]

\* fetchRemoteChanges resumes with the delta the remote has produced for
\* since = lastSync
FetchSince == \E ok \in BOOLEAN : FetchRequest(ok, Since(lastSync))

\* nothing stored, nothing at the remote
InitRemote ==
  /\ now = 0
  /\ online = TRUE
  /\ appIsOffline = FALSE
  /\ db = [tasks |-> EmptyStore, expenses |-> EmptyStore, journal |-> EmptyStore]
  /\ syncQueue = EmptyStore
  /\ nextKey = 1
  /\ fails = EmptyStore
  /\ lastSync = 0
  /\ isSyncing = FALSE
  /\ offlineQueue = <<>>
  /\ pc = "idle"
  /\ pendingItems = <<>>
  /\ idx = 0
  /\ held = NoHeld
  /\ unsynced = <<>>
  /\ cur = 0
  /\ pos = 0
  /\ updates = NoUpdates
  /\ ui = [op |-> "idle"]
  /\ maint = [op |-> "idle"]
  /\ habits = EmptyStore
  /\ broken = {}
  /\ credential = TRUE
  /\ lastCall = [op |-> "none"]
  /\ analytics = EmptyStore
  /\ inFlight = {}
  /\ cache = EmptyStore
  /\ sw = [op |-> "idle"]
  /\ remote = EmptyStore
  /\ activeCycles = 0
  /\ cycleLog = NewLog
  /\ remoteData = NoUpdates
  /\ db0 = db

\* the sync queue stays empty here (no UI mutation): of drainQueue only the
\* read of the queue does anything
NextRemote ==
  \/ Tick
  \/ \E id \in RemoteIds : RemoteWrite(id)
  \/ Triggers
  \/ \E fault \in Faults : DrainRead(fault)
  \/ PushStep
  \/ FetchSince
  \/ ApplyStep
  \/ Finally

\* sync cycles of one device while other devices change the remote
SpecRemote == InitRemote /\ [][NextRemote]_vars

\* =================================================================
\* Claims
\* =================================================================
InCycleEnd == pc \in {"idle", "done"}
InPull == pc \in {"pull", "applyGet", "applyPut"}
CurName == StoreNames[cur]
CurUpdate == updates[CurName][pos]

\* C1 (as claimed): an entry whose dispatch failed in three cycles is stored
\* with status 'failed' once that cycle is over, and no fourth dispatch of it
\* is ever made.
RetryCeiling ==
  \A k \in DOMAIN fails :
    /\ fails[k] <= maxRetries
    /\ (fails[k] >= maxRetries /\ InCycleEnd) => syncQueue[k].status = "failed"

\* C2: when applyRemoteUpdates meets an incoming record whose id is stored
\* with a valid updatedAt T1 and the incoming updatedAt T2 is valid, then
\* T2 > T1 makes it write the incoming record, which replaces the stored one
\* as a whole, and T2 <= T1 makes it write nothing.
ConflictResolution ==
  [][/\ ( /\ pc = "applyGet"
          /\ cycleLog'.pullError = "none"
          /\ CurUpdate.id \in DOMAIN db[CurName]
          /\ CurUpdate.updatedAt # NaT
          /\ db[CurName][CurUpdate.id].updatedAt # NaT )
        => IF CurUpdate.updatedAt > db[CurName][CurUpdate.id].updatedAt
           THEN pc' = "applyPut" /\ held' = [kind |-> "update", rec |-> CurUpdate]
           ELSE pc' # "applyPut" /\ db' = db
     /\ ( /\ pc = "applyPut"
          /\ held.kind = "update"
          /\ cycleLog'.pullError = "none" )
        => /\ db'[CurName][held.rec.id] = held.rec
           /\ \A s \in {"tasks", "expenses", "journal"} :
                \A i \in DOMAIN db[s] :
                  (s # CurName \/ i # held.rec.id) =>
                     i \in DOMAIN db'[s] /\ db'[s][i] = db[s][i]
    ]_vars

\* C2 witness: a stored task was replaced by the newer remote record
ConflictResolved ==
  /\ "t1" \in DOMAIN db0.tasks
  /\ db0.tasks["t1"].updatedAt # NaT
  /\ "t1" \in DOMAIN db.tasks
  /\ db.tasks["t1"].title = "R"

\* C3: once a remote delta has been applied completely, applying the same
\* delta again changes nothing in the Local Store and db.add never rejects.
IdempotentPull ==
  [][lastSync # 0 => (db' = db /\ cycleLog'.pullError # "constraint")]_vars

\* C3 witness: the second application of a delta that changed the stores has
\* gone through the task records and is at the expense records
PulledTwice ==
  /\ lastSync # 0
  /\ pc = "applyGet"
  /\ cur = 2
  /\ Len(remoteData.tasks) > 0
  /\ db # db0

\* C4: a pull that throws (transport, store) leaves lastSync as it was, and a
\* pull that completes, whatever failed pulls came before it, leaves the
\* stores a pull of the same delta that never failed leaves, and only then
\* is lastSync written.
CheckpointSafety ==
  [][/\ (InPull /\ cycleLog'.pullError # "none") => lastSync' = lastSync
     /\ (InPull /\ pc' = "done" /\ cycleLog'.pullError = "none")
          => db' = PullResult(db0, remoteData) /\ lastSync' = now
     /\ (lastSync' # lastSync) => (InPull /\ pc' = "done" /\ cycleLog'.pullError = "none")
    ]_vars

\* C4 witness: a pull threw in the store after it had applied part of the
\* delta, and the checkpoint is still the initial one
PullFailedPartway ==
  /\ pc = "done"
  /\ cycleLog.pullError = "store"
  /\ db # db0
  /\ lastSync = 0

\* C5: at most one sync cycle is between its start and its end; the flag is
\* set exactly while that cycle runs, so a request made meanwhile starts
\* nothing.
MutualExclusion ==
  /\ activeCycles <= 1
  /\ isSyncing = (activeCycles = 1)
  /\ isSyncing = (pc # "idle")

\* C5 witness: while online, an entry was enqueued after the running cycle
\* had read the pending entries: the syncAll of that queueForSync (or of the
\* network event since) was dropped
RequestDropped ==
  /\ pc \in {"drain", "markGet", "markPut", "pushRead", "push", "pushWrite", "pull"}
  /\ online
  /\ \E k \in DOMAIN syncQueue : k \notin cycleLog.snapshot /\ k < nextKey
  /\ ui.op = "idle"
  /\ activeCycles = 1

\* C6: no cycle is running unless isSyncing is set, isSyncing is clear when
\* none runs, and whenever isSyncing is set it is eventually clear.
FlagRelease ==
  /\ [](isSyncing = (pc # "idle"))
  /\ (isSyncing ~> ~isSyncing)

\* C6 witness: a phase threw and syncAll is about to release the flag
CycleThrew ==
  /\ pc = "done"
  /\ cycleLog.signal = "syncError"
  /\ isSyncing

\* C7 (as claimed): task t1, saved unsynced and queued while offline, is the
\* only pending entry of a cycle in which nothing fails; at the end of that
\* cycle it was sent exactly once, its entry is completed and it is synced.
ConcreteScenario ==
  ( /\ pc = "done"
    /\ cycleLog.signal = "syncComplete"
    /\ ~cycleLog.drainFailed
    /\ cycleLog.pullError = "none"
    /\ cycleLog.snapshot = {1}
    /\ syncQueue[1].type = "task"
    /\ "t1" \in DOMAIN db.tasks
    /\ db.tasks["t1"].title = "A" )
  => /\ syncQueue[1].status = "completed"
     /\ db.tasks["t1"].synced
     /\ "t1" \in DOMAIN cycleLog.posts
     /\ cycleLog.posts["t1"] = 1

\* the sync cycle resumes after a write to an entity store
CycleWrite == pc \in {"pushWrite", "applyPut"} /\ held' # held

\* the stored record keeps its fields (only synced may change), or a record
\* with a strictly greater updatedAt replaced it
WriteBackOK(old, new) ==
  \/ [new EXCEPT !.synced = old.synced] = old
  \/ DateGT(new.updatedAt, old.updatedAt)

\* C8 (as claimed): a write made by the sync cycle (synced = true after a
\* push, a remote update applied by a pull) never replaces what the Local
\* Store holds by then with a copy that has other field values, unless that
\* copy has a strictly greater updatedAt.
NoStaleWriteBack ==
  [][CycleWrite =>
       \A s \in {"tasks", "expenses", "journal"} :
         \A i \in (DOMAIN db[s]) \cap (DOMAIN db'[s]) :
           WriteBackOK(db[s][i], db'[s][i])]_vars

\* C9 (as claimed): a cycle in which the push of an unsynced record failed
\* still runs its Pulling Remote phase, and the record stays unsynced.
PushDoesNotBlock ==
  (pc = "done" /\ cycleLog.pushFailed) => cycleLog.pullRan

\* C10 (as claimed): a cycle in which the dispatch of a queue entry threw has,
\* when it ends, dispatched every entry that was pending at its start and run
\* its Pulling Remote phase.
DrainIsolation ==
  (pc = "done" /\ cycleLog.drainFailed)
  => /\ cycleLog.snapshot \subseteq cycleLog.dispatched
     /\ cycleLog.pullRan

\* C11 (as claimed): a cycle that emits 'syncComplete' had no failed queue
\* dispatch, no failed push and no failed pull.
CompleteOnlyOnSuccess ==
  (pc = "done" /\ cycleLog.signal = "syncComplete")
  => /\ ~cycleLog.drainFailed
     /\ ~cycleLog.pushFailed
     /\ cycleLog.pullError = "none"

\* the drain phase of the running cycle is over
DrainOver ==
  pc \in {"pushRead", "push", "pushWrite", "pull", "applyGet", "applyPut"}

\* C12 (as claimed): when the drain phase of a cycle is over, every entry that
\* was pending at its start, delete entries included, has been dispatched.
EveryPendingDispatched ==
  DrainOver => cycleLog.snapshot \subseteq cycleLog.dispatched

\* C13 (as claimed): the stored attempts of an entry under the ceiling equals
\* the number of failed dispatches made for it, and the entry is pending.
AttemptCounting ==
  \A k \in DOMAIN fails :
    (fails[k] < maxRetries /\ fails[k] > 0 /\ InCycleEnd)
    => /\ syncQueue[k].attempts = fails[k]
       /\ syncQueue[k].status = "pending"

\* C14: the status of a stored entry changes only from 'pending', and only
\* to 'completed' or 'failed'; it becomes 'completed' only when the transport
\* call made for that entry in the running cycle returned success.
EntryLifecycle ==
  [][\A k \in (DOMAIN syncQueue) \cap (DOMAIN syncQueue') :
       syncQueue'[k].status # syncQueue[k].status
       => /\ syncQueue[k].status = "pending"
          /\ syncQueue'[k].status \in {"completed", "failed"}
          /\ syncQueue'[k].status = "completed" => k \in cycleLog.delivered
    ]_vars

\* C14 witness: a cycle completed an entry it delivered, next to an entry
\* that was failed already
EntryCompleted ==
  \E k, j \in DOMAIN syncQueue :
    /\ k \in cycleLog.delivered
    /\ syncQueue[k].status = "completed"
    /\ syncQueue[j].status = "failed"

\* the entry was completed and older than 30 days when optimize read the queue
WasOld(k) ==
  /\ k \in DOMAIN maint.syncItems
  /\ maint.syncItems[k].status = "completed"
  /\ maint.syncItems[k].createdAt < now - ThirtyDays

\* C15: an entry is deleted only by optimize or clearSyncQueue, never by the
\* sync cycle; a deleted entry is never 'failed'; optimize deletes only
\* entries that are 'completed' and older than 30 days, and when it returns
\* without an error none of those is left.
QueueRetention ==
  [][/\ \A k \in (DOMAIN syncQueue) \ (DOMAIN syncQueue') :
          /\ maint.op # "idle"
          /\ syncQueue[k].status # "failed"
          /\ maint.op = "optimize" => (WasOld(k) /\ syncQueue[k].status = "completed")
     /\ (maint.op = "optimize" /\ maint'.op = "idle" /\ syncQueue' # syncQueue)
          => \A k \in DOMAIN syncQueue' : ~WasOld(k)
    ]_vars

\* C15 witness: optimize has deleted an old completed entry and goes on
OptimizePurged ==
  /\ maint.op = "optimize"
  /\ \E k \in DOMAIN maint.syncItems : k \notin DOMAIN syncQueue

\* queueForSync resumes after db.addToSyncQueue
Enqueued == ui.op = "queue" /\ ui'.op = "idle"

\* C16: each enqueue, online or offline, adds exactly one entry, 'pending'
\* with attempts 0, under an id greater than every id given out before, and
\* leaves the other entries as they are; ids given out never come back.
EnqueueAppends ==
  [][/\ nextKey' >= nextKey
     /\ \A k \in DOMAIN syncQueue' : k < nextKey'
     /\ Enqueued
        => /\ nextKey' = nextKey + 1
           /\ \A k \in DOMAIN syncQueue : k < nextKey /\ syncQueue'[k] = syncQueue[k]
           /\ DOMAIN syncQueue' = (DOMAIN syncQueue) \cup {nextKey}
           /\ syncQueue'[nextKey] =
                [id |-> nextKey, type |-> ui.type, data |-> ui.data,
                 status |-> "pending", createdAt |-> now, attempts |-> 0]
    ]_vars

\* C16 witness: while offline an entry was enqueued under id 2 in a queue
\* whose entry 1 has been deleted
EnqueuedAfterDelete ==
  /\ ~online
  /\ nextKey = 3
  /\ DOMAIN syncQueue = {2}
  /\ syncQueue[2].createdAt = now

\* C17: lastSync never decreases, and a step changes it only by ending a
\* pull whose fetch and whose every batch went through without throwing; the
\* new value is the time of that step.
CheckpointMonotonic ==
  [][/\ lastSync' >= lastSync
     /\ lastSync' # lastSync
        => /\ InPull
           /\ pc' = "done"
           /\ cycleLog'.pullRan
           /\ cycleLog'.pullError = "none"
           /\ lastSync' = now
    ]_vars

\* C17 witness: a later cycle runs its pull after a cycle that advanced the
\* checkpoint
CheckpointAdvanced ==
  /\ lastSync > 0
  /\ InPull
  /\ cycleLog.pullRan

\* C18 (as claimed): a sync cycle starts only when the connectivity flag
\* reports online.
OfflineSuppression ==
  [][(~isSyncing /\ isSyncing') => online']_vars

\* C19: an offline-to-online transition with no cycle in flight starts one
\* cycle, which is suspended in its first store read; with a cycle in flight
\* it starts none.
NetworkRestored ==
  [][(~online /\ online')
     => IF pc = "idle"
        THEN activeCycles' = 1 /\ isSyncing' /\ pc' = "drainRead"
        ELSE activeCycles' = activeCycles /\ pc' = pc
    ]_vars

\* C19 witness: the network is back, one cycle has just started, and no
\* dispatch was made for the entries enqueued while offline
RestoredOnce ==
  /\ online
  /\ pc = "drainRead"
  /\ activeCycles = 1
  /\ \A k \in DOMAIN fails : fails[k] = 0 /\ syncQueue[k].status = "pending"

\* two records of one collection have the same id
HasDuplicates(items) ==
  \E i, j \in 1..Len(items) : i # j /\ items[i].id = items[j].id

\* the payload lacks data or version, names another app, or holds a
\* collection that cannot be inserted
InvalidBackup(b) ==
  \/ ~b.hasData
  \/ ~b.hasVersion
  \/ b.app # "DailyTrack"
  \/ \E s \in {"tasks", "expenses", "journal"} : HasDuplicates(b.data[s])

\* C20 (as claimed): importData of an invalid backup fails and leaves every
\* collection of the Local Store as it was before the call.
InvalidBackupRejected ==
  (maint.op = "imported" /\ InvalidBackup(maint.backup))
  => /\ maint.result # "ok"
     /\ db = maint.before

\* the store that holds exactly the records of a list
Holding(items) ==
  [i \in {items[k].id : k \in 1..Len(items)} |->
     items[CHOOSE k \in 1..Len(items) : items[k].id = i]]

\* C21: after importData has returned true, every collection holds exactly
\* the records the backup lists for it and nothing of what was stored before;
\* a collection the backup lists nothing for is empty.
FullReplace ==
  (maint.op = "imported" /\ maint.result = "ok")
  => \A s \in DOMAIN db : db[s] = Holding(maint.backup.data[s])

\* an import has succeeded that emptied a collection holding records and
\* filled another from the backup
ImportReplaced ==
  /\ maint.op = "imported" /\ maint.result = "ok"
  /\ \E s \in DOMAIN db :
       maint.before[s] # EmptyStore /\ maint.backup.data[s] = <<>>
  /\ \E s \in DOMAIN db : Len(maint.backup.data[s]) > 0

\* C22: importing the export of the Local Store into the emptied stores
\* gives back, for every entity type, the records that were exported.
RoundTrip ==
  (/\ maint.op = "imported" /\ maint.result = "ok"
   /\ maint.backup = ExportData(maint.before))
  => db = maint.before

\* the export of stores holding a task and an expense has been imported
RoundTripDone ==
  /\ maint.op = "imported" /\ maint.result = "ok"
  /\ maint.backup = ExportData(maint.before)
  /\ maint.before.tasks # EmptyStore
  /\ maint.before.expenses # EmptyStore

\* C23 (as claimed): a habit whose completions were logged for the days D,
\* D+1, D+2 in that order has currentStreak 3, and one whose completions were
\* logged for D and then D+3 has currentStreak 1, on whatever days the calls
\* were made.
StreakContinuity ==
  \A id \in DOMAIN habits :
    LET h == habits[id]
    IN /\ (\E d \in 0..MaxDay : h.completionHistory = <<d, d + 1, d + 2>>)
            => h.currentStreak = 3
       /\ (\E d \in 0..MaxDay : h.completionHistory = <<d, d + 3>>)
            => h.currentStreak = 1

\* C24: a call of logHabitCompletion for the date of the habit's last
\* completion leaves the stored habit as it was.
SameDayNoOp ==
  (/\ lastCall.op = "logHabit" /\ lastCall.result # "null"
   /\ lastCall.date = lastCall.before.lastCompleted)
  => /\ lastCall.result = "ok"
     /\ habits[lastCall.id] = lastCall.before

\* a completion was logged again for the day of the last completion, after
\* two completions
LoggedSameDay ==
  /\ lastCall.op = "logHabit" /\ lastCall.result = "ok"
  /\ lastCall.date = lastCall.before.lastCompleted
  /\ Len(lastCall.before.completionHistory) = 2

\* C25 (as claimed): no write to the Local Store stores, for an id, an
\* updatedAt older than the one stored for that id before the write.
UpdatedAtMonotonic ==
  [][\A s \in DOMAIN db : \A i \in DOMAIN db[s] \cap DOMAIN db'[s] :
       db'[s][i].updatedAt >= db[s][i].updatedAt]_vars

\* C26 (as claimed): when the validate of repair has reported a store that
\* cannot be accessed, repair ends with the storage recreated and validate
\* true; when it has reported none, repair leaves every store as it was.
RepairCompletes ==
  maint.op = "repaired"
  => IF maint.result = "valid"
     THEN Covered = maint.before
     ELSE maint.result = "recreated" /\ Validate(FALSE)

\* C27 (as claimed): once the Local Store has been deleted and recreated,
\* the lastSync checkpoint is back at 0.
CheckpointReset ==
  (maint.op = "repaired" /\ maint.result = "recreated") => lastSync = 0

\* C28 (as claimed): while the network is up and the credential is missing
\* or rejected, no step of the drain counts an attempt against an entry or
\* marks one failed.
AuthNoBudget ==
  [][(pc = "drain" /\ online /\ ~credential)
     => \A i \in DOMAIN pendingItems \cap DOMAIN pendingItems' :
          /\ pendingItems'[i].attempts = pendingItems[i].attempts
          /\ pendingItems'[i].status = pendingItems[i].status]_vars

\* C29 (as claimed): the engine holds no entry of its own: while no
\* clearSyncQueue is under way, whatever its in-memory list holds is a
\* 'pending' entry of the durable sync queue.
SingleSourceOfTruth ==
  maint.op = "idle" =>
  \A i \in 1..Len(offlineQueue) :
    \E k \in DOMAIN syncQueue :
      /\ syncQueue[k].status = "pending"
      /\ syncQueue[k].type = offlineQueue[i].type
      /\ syncQueue[k].data = offlineQueue[i].data
      /\ syncQueue[k].createdAt = offlineQueue[i].createdAt

PartialMerge ==
  [][/\ \A c \in inFlight \ inFlight' :
          c.phase = "get"
          \/ (c.date \in DOMAIN analytics'
              /\ c.metric \in DOMAIN analytics'[c.date]
              /\ analytics'[c.date][c.metric] = c.value)
     /\ \A d \in DOMAIN analytics : \A m \in Metrics \cap DOMAIN analytics[d] :
          \/ /\ d \in DOMAIN analytics'
             /\ m \in DOMAIN analytics'[d]
             /\ analytics'[d][m] = analytics[d][m]
          \/ \E c \in inFlight \ inFlight' : c.metric = m /\ c.date = d]_vars

\* C32 (as claimed): a request whose method is not GET or whose scheme is
\* neither http nor https is never responded to by the router: no strategy
\* runs for it, no fetch is made for it and the cache is left alone.
RouterBypass ==
  (sw.op # "idle"
   /\ (sw.req.method # "GET" \/ sw.req.scheme \notin {"http:", "https:"}))
  => /\ sw.op = "done"
     /\ sw.route = "bypass"
     /\ ~sw.fetched
     /\ cache = sw.cacheBefore

\* C33 (as claimed): a network-first request answered in time returns the
\* network response; otherwise it returns the response cached for the
\* request, else the placeholder when the path is an API path, else the
\* offline page when it is a navigation, else the failure.
FallbackOrder ==
  (sw.op = "done" /\ sw.route = "networkFirst")
  => IF sw.outcome = "answer" THEN sw.result.kind = "network"
     ELSE sw.result =
            IF Key(sw.req) \in DOMAIN sw.cacheBefore
            THEN sw.cacheBefore[Key(sw.req)]
            ELSE IF PathStartsWithApi(sw.req) THEN Placeholder
            ELSE IF sw.req.mode = "navigate" THEN OfflinePage
            ELSE Failure

\* C34 (as claimed): once the network has answered a network-first request,
\* the cache holds that response under the request.
NetworkFirstCaching ==
  (sw.op = "done" /\ sw.route = "networkFirst" /\ sw.outcome = "answer")
  => /\ Key(sw.req) \in DOMAIN cache
     /\ cache[Key(sw.req)] = sw.result

\* scheme, host and port are those of the service worker
SameOrigin(req) == req.scheme = SelfScheme /\ req.authority = SelfAuthority

\* C35 (as claimed): a static-asset request with a cached response gets it
\* and nothing is fetched; without one the network response is returned, and
\* cached only if it is ok and same-origin; when the fetch fails a navigation
\* gets the offline page and any other request the failure.
CacheFirstPolicy ==
  (sw.op = "done" /\ sw.route = "cacheFirst")
  => LET key == Key(sw.req)
         before == sw.cacheBefore
     IN IF key \in DOMAIN before
        THEN sw.result = before[key] /\ ~sw.fetched /\ cache = before
        ELSE /\ sw.fetched
             /\ IF sw.outcome = "answer"
                THEN /\ sw.result.kind = "network"
                     /\ cache = IF sw.result.ok /\ SameOrigin(sw.req)
                                THEN [k \in DOMAIN before \cup {key} |->
                                        IF k = key THEN sw.result ELSE before[k]]
                                ELSE before
                ELSE /\ cache = before
                     /\ sw.result = IF sw.req.mode = "navigate"
                                    THEN OfflinePage ELSE Failure

\* C36 (as claimed): with no local mutation after the pull, a record that a
\* pull stored (it carries the title the remote gave it) is never among the
\* records the Pushing Local phase sends.
NoEcho ==
  \A i \in 1..Len(unsynced) : unsynced[i].title # "R"

\* C37 (as claimed): while the delete entry of a record is pending, no
\* sync cycle has put a record of the remote back under that id.
LocalDeleteKept ==
  \A k \in DOMAIN syncQueue :
    (syncQueue[k].type = "task-delete" /\ syncQueue[k].status = "pending")
    => ~(/\ syncQueue[k].data.id \in DOMAIN db.tasks
         /\ db.tasks[syncQueue[k].data.id].title = "R")

\* C38 (as claimed): no change of the remote is behind the checkpoint
\* without having been fetched: a record of the remote either was changed
\* after the checkpoint or is stored locally in that version or a later one.
NoChangeSkipped ==
  \A id \in DOMAIN remote :
    \/ remote[id].updatedAt > lastSync
    \/ /\ id \in DOMAIN db[StoreOfId(id)]
       /\ db[StoreOfId(id)][id].updatedAt >= remote[id].updatedAt

\* C39: a cycle ends (the flag is released) only after it has emitted exactly
\* one of 'syncComplete' and 'syncError'; no signal is emitted before the end
\* of the cycle; a subscriber that throws changes neither of these, and the
\* flag is released all the same.
OneOutcomeSignal ==
  [][/\ (pc' = "done")
          => /\ Cardinality(cycleLog'.emitted) = 1
             /\ cycleLog'.emitted \subseteq {"syncComplete", "syncError"}
             /\ cycleLog'.emitted = {cycleLog'.signal}
     /\ (pc' # "done") => cycleLog'.emitted = {}
     /\ (isSyncing /\ ~isSyncing') => pc = "done"
     /\ (pc = "done" /\ pc' # "done") => (pc' = "idle" /\ ~isSyncing')
    ]_vars

\* C39 witness: a cycle has emitted 'syncComplete', a subscriber of it threw,
\* and the flag is still to be released
SubscriberThrew ==
  /\ pc = "done"
  /\ isSyncing
  /\ cycleLog.threw
  /\ cycleLog.signal = "syncComplete"

\* C40 (as claimed): a call of logHabitCompletion that changes a habit leaves
\* it with longestStreak >= currentStreak >= 1, and with a longestStreak that
\* is not below the one it had.
StreakBound ==
  [][\A id \in DOMAIN habits :
       (id \in DOMAIN habits' /\ habits'[id] # habits[id])
         => /\ habits'[id].currentStreak >= 1
            /\ habits'[id].longestStreak >= habits'[id].currentStreak
            /\ habits'[id].longestStreak >= habits[id].longestStreak
    ]_vars

====
